---- MODULE Spec2Model ----
(***************************************************************************)
(* Model of abipy/core/symmetries.py: exact integer 3x3 matrix algebra,    *)
(* SymmOp (rotation + fractional translation + time/afm signs),            *)
(* LatticeRotation, OpSequence algorithms (is_group, asdict, mult_table,   *)
(* class_indices), SpaceGroup construction and little groups, the          *)
(* point-group id table, Irrep and BilbaoPointGroup.auto_test.             *)
(*                                                                         *)
(* Conventions.  A 3x3 matrix is a tuple of three rows, each a tuple of    *)
(* three integers.  A fractional vector (tau, k-point) is a tuple of three *)
(* integer numerators over the common denominator TauDen (resp. KDen).     *)
(* A call that can raise returns a record [exc, val]: exc is the name of   *)
(* the exception raised, or "" when the call returned val.                 *)
(***************************************************************************)
EXTENDS Integers, Sequences, FiniteSets, TLC

VARIABLES
    regs,       \* SpecOp: the SymmOp objects that exist (a sequence)
    opcall,     \* SpecOp: the last SymmOp call: kind, arguments, outcome
    depth,      \* SpecOp: number of __mul__ / inverse() calls made so far
    phase,      \* Spec, SpecLg, SpecBilbao: "input" | "built" | "raised" (life cycle of the object)
    gens,       \* Spec: generator data handed to SpaceGroup.__init__
    edits,      \* Spec, SpecBilbao: number of edits applied to the input data (0 or 1)
    spg,        \* Spec: the SpaceGroup object (its attributes)
    ret,        \* Spec, SpecBilbao: the last method call on the object and its result
    lgcalls,    \* SpecLg: the find_little_group calls made, with their results
    ptgq,       \* SpecPtg: the converter calls made: function, argument, result
    table,      \* SpecBilbao: the entry of the irreps database handed to BilbaoPointGroup
    bptg        \* SpecBilbao: the BilbaoPointGroup object (its attributes)

vars == <<regs, opcall, depth, phase, gens, edits, spg, ret, lgcalls, ptgq, table, bptg>>

(***************************************************************************)
(* Bounds of the model.                                                    *)
(***************************************************************************)
\* denominator of the fractional translations (tau = numerators / TauDen)
TauDen == 2
\* denominator of the k-point coordinates
KDen == 4
\* SymmOp objects held at once in SpecOp
MaxRegs == 2
\* __mul__ / inverse() calls in one SpecOp run
MaxDepth == 1
\* longest generator list handed to SpaceGroup.__init__
MaxSym == 6
\* find_little_group calls on one SpaceGroup
MaxCalls == 2
\* converter calls chained on one value in SpecPtg
MaxChain == 2

(***************************************************************************)
(* Values.                                                                 *)
(***************************************************************************)
\* Python None where a matrix, a vector or a list is expected
None == <<>>

\* np.eye(3, dtype=np.int)
E3 == <<<<1, 0, 0>>, <<0, 1, 0>>, <<0, 0, 1>>>>

Abs(x) == IF x < 0 THEN -x ELSE x

\* Python's floor division a // d for d # 0
FloorDiv(a, d) == IF d > 0 THEN a \div d ELSE (-a) \div (-d)

\* mat.T
Transpose(m) ==
    << <<m[1][1], m[2][1], m[3][1]>>,
       <<m[1][2], m[2][2], m[3][2]>>,
       <<m[1][3], m[2][3], m[3][3]>> >>

\* np.dot(A, B) for two 3x3 matrices
MatMul(A, B) ==
    LET c(i, j) == A[i][1] * B[1][j] + A[i][2] * B[2][j] + A[i][3] * B[3][j]
    IN << <<c(1, 1), c(1, 2), c(1, 3)>>,
          <<c(2, 1), c(2, 2), c(2, 3)>>,
          <<c(3, 1), c(3, 2), c(3, 3)>> >>

\* np.dot(A, v) for a 3x3 matrix and a 3-vector
MatVec(A, v) ==
    << A[1][1] * v[1] + A[1][2] * v[2] + A[1][3] * v[3],
       A[2][1] * v[1] + A[2][2] * v[2] + A[2][3] * v[3],
       A[3][1] * v[1] + A[3][2] * v[2] + A[3][3] * v[3] >>

VecAdd(u, v) == <<u[1] + v[1], u[2] + v[2], u[3] + v[3]>>
VecSub(u, v) == <<u[1] - v[1], u[2] - v[2], u[3] - v[3]>>
VecNeg(u) == <<-u[1], -u[2], -u[3]>>
VecScale(s, u) == <<s * u[1], s * u[2], s * u[3]>>

\* rot_r.trace()
Trace(m) == m[1][1] + m[2][2] + m[3][3]

(***************************************************************************)
(* Integer matrix algebra.                                                 *)
(***************************************************************************)
\* np.around of the rational p/den: nearest integer, halves to the even one
Around(p, den) ==
    LET q == FloorDiv(p, den)
        r == p - q * den
    IN IF 2 * r < den THEN q
       ELSE IF 2 * r > den THEN q + 1
       ELSE IF q % 2 = 0 THEN q ELSE q + 1

\* 1 / atol for SymmOp._ATOL_TAU = 1e-8
InvAtol == 100000000

\* is_integer for one coordinate p/den: np.allclose(around(x), x, atol=1e-8)
\* with numpy's rtol = 1e-5, i.e. |around(x) - x| <= atol + rtol * |x|,
\* both sides multiplied by den * 1e8.
IsIntegerCoord(p, den) ==
    Abs(Around(p, den) * den - p) * InvAtol <= den + 1000 * Abs(p)

\* is_integer(x, atol) for a vector of numerators over den
is_integer(x, den) ==
    \A c \in 1..3 : IsIntegerCoord(x[c], den)

\* mati3inv(mat3, trans): the cofactor matrix floor-divided by the determinant;
\* raises ValueError only for determinant zero.  mit[i,j] of the source is
\* mit[i+1][j+1] here.
mati3inv(mat3, trans) ==
    LET mit00 == mat3[2][2] * mat3[3][3] - mat3[3][2] * mat3[2][3]
        mit10 == mat3[3][2] * mat3[1][3] - mat3[1][2] * mat3[3][3]
        mit20 == mat3[1][2] * mat3[2][3] - mat3[2][2] * mat3[1][3]
        mit01 == mat3[3][1] * mat3[2][3] - mat3[2][1] * mat3[3][3]
        mit11 == mat3[1][1] * mat3[3][3] - mat3[3][1] * mat3[1][3]
        mit21 == mat3[2][1] * mat3[1][3] - mat3[1][1] * mat3[2][3]
        mit02 == mat3[2][1] * mat3[3][2] - mat3[3][1] * mat3[2][2]
        mit12 == mat3[3][1] * mat3[1][2] - mat3[1][1] * mat3[3][2]
        mit22 == mat3[1][1] * mat3[2][2] - mat3[2][1] * mat3[1][2]
        dd == mat3[1][1] * mit00 + mat3[2][1] * mit10 + mat3[3][1] * mit20
        mit == << <<FloorDiv(mit00, dd), FloorDiv(mit01, dd), FloorDiv(mit02, dd)>>,
                  <<FloorDiv(mit10, dd), FloorDiv(mit11, dd), FloorDiv(mit12, dd)>>,
                  <<FloorDiv(mit20, dd), FloorDiv(mit21, dd), FloorDiv(mit22, dd)>> >>
    IN IF dd = 0 THEN [exc |-> "ValueError", val |-> None]
       ELSE [exc |-> "", val |-> IF trans THEN mit ELSE Transpose(mit)]

\* the determinant computed by _get_det, before its check
Det3(mat) ==
    mat[1][1] * (mat[2][2] * mat[3][3] - mat[2][3] * mat[3][2])
    - mat[1][2] * (mat[2][1] * mat[3][3] - mat[2][3] * mat[3][1])
    + mat[1][3] * (mat[2][1] * mat[3][2] - mat[2][2] * mat[3][1])

\* _get_det(mat): raises ValueError if abs(det) != 1
get_det(mat) ==
    LET det == Det3(mat)
    IN [exc |-> IF Abs(det) # 1 THEN "ValueError" ELSE "", val |-> det]

(***************************************************************************)
(* SymmOp.                                                                 *)
(***************************************************************************)
\* SymmOp.__init__(rot_r, tau, time_sign, afm_sign, rot_g=None)
SymmOp_init(rot_r, tau, time_sign, afm_sign, rot_g) ==
    LET inv == mati3inv(rot_r, FALSE)
        g == mati3inv(rot_r, TRUE)
    IN IF inv.exc # "" THEN [exc |-> inv.exc, val |-> None]
       ELSE IF ~(afm_sign \in {-1, 1} /\ time_sign \in {-1, 1})
            THEN [exc |-> "AssertionError", val |-> None]
       ELSE IF rot_g # None /\ rot_g # g.val
            THEN [exc |-> "AssertionError", val |-> None]
       ELSE [exc |-> "",
             val |-> [rot_r |-> rot_r, rotm1_r |-> inv.val, tau |-> tau,
                      time_sign |-> time_sign, afm_sign |-> afm_sign,
                      rot_g |-> IF rot_g = None THEN g.val ELSE rot_g]]

\* faulty variant of SymmOp.__eq__: the afm sign is not compared
SymmOp_eq_noafm(self, other) ==
    /\ self.rot_r = other.rot_r
    /\ is_integer(VecSub(self.tau, other.tau), TauDen)
    /\ self.time_sign = other.time_sign

\* SymmOp.__eq__
SymmOp_eq(self, other) ==
    /\ self.rot_r = other.rot_r
    /\ is_integer(VecSub(self.tau, other.tau), TauDen)
    /\ self.afm_sign = other.afm_sign
    /\ self.time_sign = other.time_sign

\* SymmOp.__mul__: {R,t} {S,u} = {RS, Ru + t}
SymmOp_mul(self, other) ==
    SymmOp_init(MatMul(self.rot_r, other.rot_r),
                VecAdd(self.tau, MatVec(self.rot_r, other.tau)),
                self.time_sign * other.time_sign,
                self.afm_sign * other.afm_sign,
                None)

\* SymmOp.det (lazy property): _get_det(self.rot_r)
SymmOp_det(self) == get_det(self.rot_r)

\* SymmOp.__hash__: int(8 * trace + 4 * det + 2 * time_sign)
SymmOp_hash(self) ==
    LET d == SymmOp_det(self)
    IN IF d.exc # "" THEN [exc |-> d.exc, val |-> 0]
       ELSE [exc |-> "", val |-> 8 * Trace(self.rot_r) + 4 * d.val + 2 * self.time_sign]

\* faulty variant of SymmOp.inverse(): the translation is negated but not rotated
SymmOp_inverse_norot(self) ==
    SymmOp_init(self.rotm1_r, VecNeg(self.tau), self.time_sign, self.afm_sign, None)

\* SymmOp.inverse(): {R^{-1}, -R^{-1} tau}
SymmOp_inverse(self) ==
    SymmOp_init(self.rotm1_r,
                VecNeg(MatVec(self.rotm1_r, self.tau)),
                self.time_sign,
                self.afm_sign,
                None)

\* faulty variant: the identity is recognised whatever its time sign
SymmOp_isE_notime(self) ==
    /\ self.rot_r = E3
    /\ is_integer(self.tau, TauDen)
    /\ self.afm_sign = 1

\* SymmOp.isE
SymmOp_isE(self) ==
    /\ self.rot_r = E3
    /\ is_integer(self.tau, TauDen)
    /\ self.time_sign = 1
    /\ self.afm_sign = 1

(***************************************************************************)
(* LatticeRotation: a record [mat], mat an integer 3x3 matrix.             *)
(***************************************************************************)
\* LatticeRotation.__init__(mat)
LatticeRotation_init(mat) == [mat |-> mat]

\* LatticeRotation.__eq__: np.allclose(self.mat, other.mat)
LatticeRotation_eq(self, other) == self.mat = other.mat

\* LatticeRotation.__mul__
LatticeRotation_mul(self, other) ==
    [exc |-> "", val |-> LatticeRotation_init(MatMul(self.mat, other.mat))]

\* LatticeRotation.__hash__: int(8 * self.trace + 4 * self.det)
LatticeRotation_hash(self) ==
    LET d == get_det(self.mat)
    IN IF d.exc # "" THEN [exc |-> d.exc, val |-> 0]
       ELSE [exc |-> "", val |-> 8 * Trace(self.mat) + 4 * d.val]

\* LatticeRotation.inverse()
LatticeRotation_inverse(self) ==
    LET inv == mati3inv(self.mat, FALSE)
    IN IF inv.exc # "" THEN [exc |-> inv.exc, val |-> None]
       ELSE [exc |-> "", val |-> LatticeRotation_init(inv.val)]

\* LatticeRotation.isE
LatticeRotation_isE(self) == self.mat = E3

\* LatticeRotation.isI: np.allclose(self.mat, -self._E3D)
LatticeRotation_isI(self) == self.mat = <<<<-1, 0, 0>>, <<0, -1, 0>>, <<0, 0, -1>>>>

\* self.mat ** intexp for intexp > 0 (np.matrix power)
RECURSIVE MatPow(_, _)
MatPow(mat, intexp) == IF intexp = 1 THEN mat ELSE MatMul(MatPow(mat, intexp - 1), mat)

\* LatticeRotation.__pow__(intexp)
LatticeRotation_pow(self, intexp) ==
    IF intexp = 0 THEN [exc |-> "", val |-> LatticeRotation_init(E3)]
    ELSE IF intexp > 0 THEN [exc |-> "", val |-> LatticeRotation_init(MatPow(self.mat, intexp))]
    ELSE IF intexp = -1 THEN LatticeRotation_inverse(self)
    ELSE LatticeRotation_inverse(LatticeRotation_init(MatPow(self.mat, -intexp)))

\* the loop of _find_order_and_rootinv from ior on, up to last
RECURSIVE FindOrderLoop(_, _, _, _)
FindOrderLoop(self, ior, last, root_inv) ==
    IF ior > last THEN [exc |-> "ValueError", val |-> None]
    ELSE LET rn == LatticeRotation_pow(self, ior).val
         IN IF LatticeRotation_isE(rn)
            THEN [exc |-> "", val |-> [order |-> ior, root_inv |-> root_inv]]
            ELSE FindOrderLoop(self, ior + 1, last,
                               IF LatticeRotation_isI(rn) THEN ior ELSE root_inv)

\* faulty variant: the powers are tried up to the fourth only
LatticeRotation_find_order_and_rootinv_upto4(self) == FindOrderLoop(self, 1, 4, 0)

\* LatticeRotation._find_order_and_rootinv(): for ior in range(1,7)
LatticeRotation_find_order_and_rootinv(self) == FindOrderLoop(self, 1, 6, 0)

\* LatticeRotation.order; the pair is kept in _order, _root_inv once found,
\* and mat is never reassigned
LatticeRotation_order(self) ==
    LET r == LatticeRotation_find_order_and_rootinv(self)
    IN IF r.exc # "" THEN r ELSE [exc |-> "", val |-> r.val.order]

\* LatticeRotation.root_inv
LatticeRotation_root_inv(self) ==
    LET r == LatticeRotation_find_order_and_rootinv(self)
    IN IF r.exc # "" THEN r ELSE [exc |-> "", val |-> r.val.root_inv]

(***************************************************************************)
(* Operation: the protocol of the abstract base class, dispatched on the   *)
(* class of the object (a LatticeRotation has the attribute mat).          *)
(***************************************************************************)
IsLatticeRotation(op) == "mat" \in DOMAIN op

Op_eq(self, other) ==
    IF IsLatticeRotation(self) THEN LatticeRotation_eq(self, other) ELSE SymmOp_eq(self, other)

Op_mul(self, other) ==
    IF IsLatticeRotation(self) THEN LatticeRotation_mul(self, other) ELSE SymmOp_mul(self, other)

Op_hash(self) ==
    IF IsLatticeRotation(self) THEN LatticeRotation_hash(self) ELSE SymmOp_hash(self)

Op_inverse(self) ==
    IF IsLatticeRotation(self) THEN LatticeRotation_inverse(self) ELSE SymmOp_inverse(self)

Op_isE(self) ==
    IF IsLatticeRotation(self) THEN LatticeRotation_isE(self) ELSE SymmOp_isE(self)

\* faulty variant: X S X, the first factor is not inverted
opconj_noinv(self, other) ==
    LET xs == Op_mul(other, self)
    IN IF xs.exc # "" THEN xs ELSE Op_mul(xs.val, other)

\* Operation.opconj(other): X^-1 S X with X = other
opconj(self, other) ==
    LET xinv == Op_inverse(other)
    IN IF xinv.exc # "" THEN xinv
       ELSE LET xs == Op_mul(xinv.val, self)
            IN IF xs.exc # "" THEN xs ELSE Op_mul(xs.val, other)

(***************************************************************************)
(* Python dict keyed by Operation: a sequence of entries [key, h, v] in     *)
(* insertion order.  A key matches an entry when the hashes are equal and   *)
(* then the keys compare equal with __eq__.                                 *)
(***************************************************************************)
DictMatch(d, p, key, h) == d[p].h = h /\ Op_eq(d[p].key, key)

\* a function on 1..n as a tuple
ToSeq(f) == f \o <<>>

\* the least element of a non-empty set of integers
Min(S) == CHOOSE p \in S : \A q \in S : p <= q

\* position of the entry matching key (hash h), 0 if there is none
DictFind(d, key, h) ==
    LET m == {p \in 1..Len(d) : DictMatch(d, p, key, h)}
    IN IF m = {} THEN 0 ELSE Min(m)

\* d[key] = v ; hash(key) may raise
dict_setitem(d, key, v) ==
    LET h == Op_hash(key)
        p == DictFind(d, key, h.val)
    IN IF h.exc # "" THEN [exc |-> h.exc, val |-> d]
       ELSE IF p = 0 THEN [exc |-> "", val |-> Append(d, [key |-> key, h |-> h.val, v |-> v])]
       ELSE [exc |-> "", val |-> [d EXCEPT ![p].v = v]]

\* d[key]: KeyError when absent ; hash(key) may raise
dict_getitem(d, key) ==
    LET h == Op_hash(key)
        p == DictFind(d, key, h.val)
    IN IF h.exc # "" THEN [exc |-> h.exc, val |-> -1]
       ELSE IF p = 0 THEN [exc |-> "KeyError", val |-> -1]
       ELSE [exc |-> "", val |-> d[p].v]

\* key in d ; hash(key) may raise
dict_contains(d, key) ==
    LET h == Op_hash(key)
    IN IF h.exc # "" THEN [exc |-> h.exc, val |-> FALSE]
       ELSE [exc |-> "", val |-> DictFind(d, key, h.val) # 0]

(***************************************************************************)
(* OpSequence.  ops is the tuple self._ops; the indices stored in dicts,    *)
(* tables and classes are the source's 0-based indices: index i is ops[i+1].*)
(***************************************************************************)
\* OpSequence.__contains__: op in self._ops
OpSeq_contains(ops, op) == \E i \in 1..Len(ops) : Op_eq(ops[i], op)

\* OpSequence.__eq__(other): founds holds the positions in self of the
\* operations found in other
OpSeq_eq(self, other) ==
    IF other = None THEN FALSE
    ELSE IF Len(self.ops) # Len(other.ops) THEN FALSE
    ELSE IF \E i \in 1..Len(self.ops) : ~OpSeq_contains(other.ops, self.ops[i]) THEN FALSE
    ELSE LET founds == [i \in 1..Len(self.ops) |-> i - 1]
         IN Cardinality({founds[i] : i \in 1..Len(self.ops)}) = Len(self.ops)

RECURSIVE AsDictLoop(_, _, _)
\* {op: idx for (idx, op) in enumerate(self)}, from index idx on; r is the
\* dict after the insertion of self[idx]
AsDictLoop(ops, idx, d) ==
    IF idx = Len(ops) THEN [exc |-> "", val |-> d]
    ELSE CHOOSE out \in {IF r.exc # "" THEN r ELSE AsDictLoop(ops, idx + 1, r.val) :
                            r \in {dict_setitem(d, ops[idx + 1], idx)}} : TRUE

\* the assert of asdict on the dict d built
AsDictCheck(ops, d) ==
    IF d.exc # "" THEN d
    ELSE IF Len(d.val) # Len(ops) THEN [exc |-> "AssertionError", val |-> d.val]
    ELSE d

\* OpSequence.asdict
OpSeq_asdict(ops) ==
    CHOOSE out \in {AsDictCheck(ops, d) : d \in {AsDictLoop(ops, 0, <<>>)}} : TRUE

\* op_prods = [op1 * op2 for op1 in self for op2 in self]
OpProds(ops) ==
    ToSeq([q \in 1..(Len(ops) * Len(ops)) |->
              Op_mul(ops[((q - 1) \div Len(ops)) + 1], ops[((q - 1) % Len(ops)) + 1])])

\* [op.inverse() for op in self]
OpInverses(ops) == ToSeq([i \in 1..Len(ops) |-> Op_inverse(ops[i])])

\* [op12 in d for op12 in op_prods]
ProdLookups(d, op_prods) ==
    ToSeq([q \in 1..Len(op_prods) |-> dict_contains(d.val, op_prods[q].val)])

\* the result of is_group from the inverses, the products, the dict and the
\* lookups of the products in the dict, in the order the code evaluates them
IsGroupResult(ops, invs, op_prods, d, looks) ==
    LET n == Len(ops)
        idcount == Cardinality({i \in 1..n : Op_isE(ops[i])})
        invcount == Cardinality({i \in 1..n : OpSeq_contains(ops, invs[i].val)})
        check == (IF idcount # 1 THEN 1 ELSE 0)
                 + (IF invcount # n THEN 2 ELSE 0)
                 + Cardinality({q \in 1..Len(looks) : ~looks[q].val})
    IN IF \E i \in 1..n : invs[i].exc # "" THEN [exc |-> "ValueError", val |-> FALSE]
       ELSE IF \E q \in 1..Len(op_prods) : op_prods[q].exc # ""
            THEN [exc |-> "ValueError", val |-> FALSE]
       ELSE IF d.exc # "" THEN [exc |-> d.exc, val |-> FALSE]
       ELSE IF \E q \in 1..Len(looks) : looks[q].exc # ""
            THEN [exc |-> "ValueError", val |-> FALSE]
       ELSE [exc |-> "", val |-> check = 0]

\* is_group once the inverses, the products and the dict are evaluated
IsGroupWithDict(ops, invs, op_prods, d) ==
    IF (\E i \in 1..Len(ops) : invs[i].exc # "")
       \/ (\E q \in 1..Len(op_prods) : op_prods[q].exc # "") \/ d.exc # ""
    THEN IsGroupResult(ops, invs, op_prods, d, <<>>)
    ELSE CHOOSE out \in {IsGroupResult(ops, invs, op_prods, d, looks) :
                            looks \in {ProdLookups(d, op_prods)}} : TRUE

\* OpSequence.is_group
OpSeq_is_group(ops) ==
    CHOOSE out \in {IsGroupWithDict(ops, invs, op_prods, d) :
                       invs \in {OpInverses(ops)}, op_prods \in {OpProds(ops)},
                       d \in {OpSeq_asdict(ops)}} : TRUE

\* op1_conj = op1.opconj(op2) for op1 = self[ii] and every op2 = self[jj]:
\* entry jj + 1
ClassConj(ops, ii) == ToSeq([j \in 1..Len(ops) |-> opconj(ops[ii + 1], ops[j])])

\* op1_conj == op3 for every (jj, kk): entry jj * n + kk + 1
ClassEq(ops, conj) ==
    ToSeq([t \in 1..(Len(ops) * Len(ops)) |->
              Op_eq(conj[((t - 1) \div Len(ops)) + 1].val, ops[((t - 1) % Len(ops)) + 1])])

\* the pairs (jj, kk) in the order of the loops, as jj * n + kk
LoopPairs(n) == ToSeq([t \in 1..(n * n) |-> t - 1])

\* faulty variant: an operation already appended is appended again each time a
\* conjugate equals it
ClassOf_nofound(n, eqm, found) ==
    LET sel == SelectSeq(LoopPairs(n), LAMBDA t : eqm[t + 1])
    IN ToSeq([q \in 1..Len(sel) |-> sel[q] % n])

\* the list class_indices[num_classes] after the loops over jj and kk: kk is
\* appended in pass jj when op1_conj == self[kk] and found[kk] is False, that
\* is kk was not found before the loops nor in an earlier pass
ClassOf(n, eqm, found) ==
    LET sel == SelectSeq(LoopPairs(n),
                         LAMBDA t : /\ eqm[t + 1]
                                    /\ (t % n) \notin found
                                    /\ \A j \in 0..((t \div n) - 1) : ~eqm[j * n + (t % n) + 1])
    IN ToSeq([q \in 1..Len(sel) |-> sel[q] % n])

\* the loop state after the passes for op1 = self[ii]
ClassStep(ops, ii, st, conj) ==
    IF \E j \in 1..Len(conj) : conj[j].exc # "" THEN [st EXCEPT !.exc = "ValueError"]
    ELSE CHOOSE out \in {[found |-> st.found \cup {cls[q] : q \in 1..Len(cls)},
                          class_indices |-> Append(st.class_indices, cls),
                          exc |-> ""] :
                            cls \in {ClassOf(Len(ops), eqm, st.found) :
                                        eqm \in {ClassEq(ops, conj)}}} : TRUE

RECURSIVE ClassII(_, _, _)
\* for (ii, op1) in enumerate(self): if found[ii]: continue; num_classes += 1;
\* st.found is the set of the kk with found[kk], st.class_indices the lists
\* class_indices[:num_classes+1]
ClassII(ops, ii, st) ==
    IF ii = Len(ops) \/ st.exc # "" THEN st
    ELSE IF ii \in st.found THEN ClassII(ops, ii + 1, st)
    ELSE CHOOSE out \in {ClassII(ops, ii + 1, nst) :
                            nst \in {ClassStep(ops, ii, st, conj) :
                                        conj \in {ClassConj(ops, ii)}}} : TRUE

RECURSIVE SumLen(_, _)
\* sum(len(c) for c in cls), from position p on
SumLen(cls, p) == IF p > Len(cls) THEN 0 ELSE Len(cls[p]) + SumLen(cls, p + 1)

\* the body of the class_indices property when nothing is cached: val is the
\* list computed, cached tells whether self._class_indices was assigned
\* before the call ended (the assignment precedes the final assert)
OpSeq_compute_class_indices(ops) ==
    CHOOSE out \in
        {IF st.exc # "" THEN [exc |-> st.exc, cached |-> FALSE, val |-> <<>>]
         ELSE IF SumLen(st.class_indices, 1) # Len(ops)
              THEN [exc |-> "AssertionError", cached |-> TRUE, val |-> st.class_indices]
         ELSE [exc |-> "", cached |-> TRUE, val |-> st.class_indices] :
            st \in {ClassII(ops, 0, [found |-> {}, class_indices |-> <<>>, exc |-> ""])}} : TRUE

\* index = d[op12] for op12 = self[i] * self[j], with q = i * n + j + 1:
\* exc is "KeyError" when the try block ends in "index = None"
MultLookups(ops, d) ==
    ToSeq([q \in 1..(Len(ops) * Len(ops)) |->
              CHOOSE out \in {IF op12.exc # "" THEN [exc |-> op12.exc, val |-> -1]
                              ELSE dict_getitem(d, op12.val) :
                                 op12 \in {Op_mul(ops[((q - 1) \div Len(ops)) + 1],
                                                      ops[((q - 1) % Len(ops)) + 1])}} : TRUE])

\* mtable[i,j] = index for every pair: the store of None in the array of
\* dtype int raises TypeError; the first pair that fails ends the loops
MultTableFill(n, looks) ==
    LET bad == {q \in 1..Len(looks) : looks[q].exc # ""}
        first == Min(bad)
    IN IF bad = {}
       THEN [exc |-> "", cached |-> TRUE,
             val |-> ToSeq([i \in 1..n |-> ToSeq([j \in 1..n |-> looks[(i - 1) * n + j].val])])]
       ELSE [exc |-> IF looks[first].exc = "KeyError" THEN "TypeError" ELSE looks[first].exc,
             cached |-> FALSE, val |-> <<>>]

\* the body of the mult_table property when nothing is cached: val is the
\* table (a tuple of rows), cached tells whether self._mult_table was assigned
OpSeq_compute_mult_table(ops) ==
    CHOOSE out \in
        {IF d.exc # "" THEN [exc |-> d.exc, cached |-> FALSE, val |-> <<>>]
         ELSE CHOOSE res \in {MultTableFill(Len(ops), looks) :
                                 looks \in {MultLookups(ops, d.val)}} : TRUE :
            d \in {OpSeq_asdict(ops)}} : TRUE

(***************************************************************************)
(* SpaceGroup.                                                             *)
(***************************************************************************)
\* a lazily computed attribute that has not been assigned yet
NotCached == [set |-> FALSE, val |-> <<>>]

\* faulty variant: the time-reversed copies are never added
SpaceGroup_init_notimerev(spgid, symrel, tnons, symafm, has_timerev, inord) ==
    LET n == Len(symrel)
        recs == [i \in 1..n |-> mati3inv(symrel[i], TRUE)]
        syms == [p \in 1..n |-> SymmOp_init(symrel[p], tnons[p], 1, symafm[p], recs[p].val)]
    IN IF (spgid \notin 0..232) \/ (inord \notin {"C", "F"}) \/ (\E i \in 1..n : recs[i].exc # "")
          \/ (\E p \in 1..n : syms[p].exc # "")
       THEN [exc |-> "ValueError", val |-> None]
       ELSE [exc |-> "",
             val |-> [spgid |-> spgid, has_timerev |-> has_timerev,
                      time_signs |-> <<1>>, symrel |-> symrel, tnons |-> tnons,
                      symafm |-> symafm,
                      symrec |-> ToSeq([i \in 1..n |-> recs[i].val]),
                      ops |-> ToSeq([p \in 1..n |-> syms[p].val]),
                      mult_table |-> NotCached, class_indices |-> NotCached]]

\* SpaceGroup.__init__(spgid, symrel, tnons, symafm, has_timerev, inord)
SpaceGroup_init(spgid, symrel, tnons, symafm, has_timerev, inord) ==
    LET time_signs == IF has_timerev THEN <<1, -1>> ELSE <<1>>
        n == Len(symrel)
        \* Fortran to C
        symrelC == [i \in 1..n |-> IF inord = "F" THEN Transpose(symrel[i]) ELSE symrel[i]]
        recs == [i \in 1..n |-> mati3inv(symrelC[i], TRUE)]
        \* for time_sign in self._time_signs: for isym in range(len(self.symrel))
        syms == [p \in 1..(Len(time_signs) * n) |->
                    SymmOp_init(symrelC[((p - 1) % n) + 1],
                                tnons[((p - 1) % n) + 1],
                                time_signs[((p - 1) \div n) + 1],
                                symafm[((p - 1) % n) + 1],
                                recs[((p - 1) % n) + 1].val)]
        bad == {p \in 1..(Len(time_signs) * n) : syms[p].exc # ""}
    IN IF spgid \notin 0..232 THEN [exc |-> "AssertionError", val |-> None]
       ELSE IF inord \notin {"C", "F"} THEN [exc |-> "AssertionError", val |-> None]
       ELSE IF Len(symrel) # Len(tnons) \/ Len(symrel) # Len(symafm)
            THEN [exc |-> "ValueError", val |-> None]
       ELSE IF \E i \in 1..n : recs[i].exc # "" THEN [exc |-> "ValueError", val |-> None]
       ELSE IF bad # {}
            THEN [exc |-> syms[CHOOSE p \in bad : \A q \in bad : p <= q].exc, val |-> None]
       ELSE [exc |-> "",
             val |-> [spgid |-> spgid, has_timerev |-> has_timerev,
                      time_signs |-> time_signs,
                      symrel |-> ToSeq(symrelC), tnons |-> tnons, symafm |-> symafm,
                      symrec |-> ToSeq([i \in 1..n |-> recs[i].val]),
                      ops |-> ToSeq([p \in 1..(Len(time_signs) * n) |-> syms[p].val]),
                      mult_table |-> NotCached, class_indices |-> NotCached]]

\* SpaceGroup.from_structure(structure, has_timerev); data is the dataset
\* returned by the external finder.  symrel = data["rotations"], is a tuple
\* holding the one array of rotations.  When the constructor gets past its
\* tests on spgid and on the lengths, self.symrel[0] is the whole array of
\* shape (1, 3, 3) and mat3[1,1] in mati3inv is out of range.
SpaceGroup_from_structure(data, has_timerev) ==
    LET symrel == <<data.rotations>>
        symafm == [i \in 1..Len(symrel) |-> 1]
    IN IF data.number \in 0..232 /\ Len(symrel) = Len(data.translations)
       THEN [exc |-> "IndexError", val |-> None]
       ELSE SpaceGroup_init(data.number, symrel, data.translations, symafm, has_timerev, "C")

\* SpaceGroup.num_spatial_symmetries: int(len(self) / fact)
num_spatial_symmetries(self) ==
    LET fact == IF self.has_timerev THEN 2 ELSE 1
    IN Len(self.ops) \div fact

(***************************************************************************)
(* Inputs of the SymmOp calls.                                             *)
(***************************************************************************)
\* threefold rotation in a hexagonal basis: unimodular, not orthogonal
C3hex == <<<<0, -1, 0>>, <<1, -1, 0>>, <<0, 0, 1>>>>
\* mirror exchanging the first two axes: determinant -1
MirXY == <<<<0, 1, 0>>, <<1, 0, 0>>, <<0, 0, 1>>>>
\* twofold rotation about the third axis
C2z == <<<<-1, 0, 0>>, <<0, -1, 0>>, <<0, 0, 1>>>>
\* inversion
Inv3 == <<<<-1, 0, 0>>, <<0, -1, 0>>, <<0, 0, -1>>>>
\* mirror through the plane normal to the third axis
Mz == <<<<1, 0, 0>>, <<0, 1, 0>>, <<0, 0, -1>>>>
\* a unimodular shear: determinant 1, infinite order, trace of the identity
Shear == <<<<1, 1, 0>>, <<0, 1, 0>>, <<0, 0, 1>>>>
\* determinant 2
Det2 == <<<<2, 0, 0>>, <<0, 1, 0>>, <<0, 0, 1>>>>
\* determinant 0
Sing == <<<<1, 1, 0>>, <<1, 1, 0>>, <<0, 0, 1>>>>

\* numerators over TauDen: zero, a fraction along x, a lattice vector
OpTaus == {<<0, 0, 0>>, <<1, 0, 0>>, <<0, 0, TauDen>>}

\* the arguments (rot_r, tau, time_sign, afm_sign) of the constructor calls:
\* one rotation with every translation and both time signs, operations that
\* differ from it in one attribute, and rotations that are not unimodular
OpArgs ==
    ({C3hex} \X OpTaus \X {1, -1} \X {1})
    \cup {<<C3hex, <<1, 0, 0>>, -1, -1>>, <<MirXY, <<1, 0, 0>>, 1, 1>>,
          <<Shear, <<1, 0, 0>>, 1, -1>>, <<E3, <<0, 0, TauDen>>, 1, 1>>,
          <<Det2, <<0, 0, 0>>, 1, 1>>, <<Sing, <<0, 0, 0>>, 1, 1>>}

NoCall == [kind |-> "none", args |-> <<>>, exc |-> "", out |-> None]

(***************************************************************************)
(* SpecOp: SymmOp objects are constructed, multiplied and inverted.        *)
(***************************************************************************)
OtherIdle ==
    /\ phase = "idle" /\ gens = <<>> /\ edits = 0 /\ spg = None
    /\ ret = NoCall /\ lgcalls = <<>>
    /\ table = None /\ bptg = None

InitOp ==
    /\ regs = <<>> /\ opcall = NoCall /\ depth = 0
    /\ ptgq = <<>>
    /\ OtherIdle

\* a = SymmOp(rot_r, tau, time_sign, afm_sign): the object exists only if the
\* constructor returns
OpNew(rot_r, tau, time_sign, afm_sign) ==
    LET r == SymmOp_init(rot_r, tau, time_sign, afm_sign, None)
    IN /\ Len(regs) < MaxRegs
       /\ depth = 0
       /\ opcall' = [kind |-> "init", args |-> <<rot_r>>, exc |-> r.exc, out |-> r.val]
       /\ regs' = IF r.exc = "" THEN Append(regs, r.val) ELSE regs
       /\ UNCHANGED <<depth, phase, gens, edits, spg, ret, lgcalls, ptgq, table, bptg>>

\* regs[1] = regs[i] * regs[j]
OpMul(i, j) ==
    LET r == SymmOp_mul(regs[i], regs[j])
    IN /\ depth < MaxDepth
       /\ opcall' = [kind |-> "mul", args |-> <<regs[i], regs[j]>>, exc |-> r.exc, out |-> r.val]
       /\ regs' = IF r.exc = "" THEN [regs EXCEPT ![1] = r.val] ELSE regs
       /\ depth' = depth + 1
       /\ UNCHANGED <<phase, gens, edits, spg, ret, lgcalls, ptgq, table, bptg>>

\* regs[1] = regs[i].inverse()
OpInverse(i) ==
    LET r == SymmOp_inverse(regs[i])
    IN /\ depth < MaxDepth
       /\ opcall' = [kind |-> "inverse", args |-> <<regs[i]>>, exc |-> r.exc, out |-> r.val]
       /\ regs' = IF r.exc = "" THEN [regs EXCEPT ![1] = r.val] ELSE regs
       /\ depth' = depth + 1
       /\ UNCHANGED <<phase, gens, edits, spg, ret, lgcalls, ptgq, table, bptg>>

NextOp ==
    \/ \E a \in OpArgs : OpNew(a[1], a[2], a[3], a[4])
    \/ \E i \in 1..Len(regs), j \in 1..Len(regs) : OpMul(i, j)
    \/ \E i \in 1..Len(regs) : OpInverse(i)

SpecOp == InitOp /\ [][NextOp]_vars

(***************************************************************************)
(* Claims about SymmOp, checked under SpecOp.                              *)
(***************************************************************************)
\* the SymmOp objects of the state
OpsInState == {regs[i] : i \in 1..Len(regs)}

\* every SymmOp the constructor returns for the inputs of OpNew
InputOps ==
    {SymmOp_init(q[1], q[2], q[3], q[4], None).val :
        q \in {a \in OpArgs : SymmOp_init(a[1], a[2], a[3], a[4], None).exc = ""}}

Unimodular(op) == Det3(op.rot_r) \in {1, -1}

\* a * a.inverse() and a.inverse() * a both have isE, with inv = a.inverse()
InverseCancels(a, inv) ==
    /\ inv.exc = ""
    /\ LET p == SymmOp_mul(a, inv.val)
           q == SymmOp_mul(inv.val, a)
       IN /\ p.exc = "" /\ SymmOp_isE(p.val)
          /\ q.exc = "" /\ SymmOp_isE(q.val)

\* C1: for every SymmOp a with a unimodular rot_r (constructed, or the result
\* of a product or an inverse), a.inverse() returns and a * a.inverse() and
\* a.inverse() * a have isE == True; the same for the inverse() call just made.
Thm_C1_InverseIsTwoSided ==
    /\ \A a \in OpsInState : Unimodular(a) => InverseCancels(a, SymmOp_inverse(a))
    /\ (opcall.kind = "inverse" /\ Unimodular(opcall.args[1]))
         => InverseCancels(opcall.args[1], [exc |-> opcall.exc, val |-> opcall.out])

\* C1 witness: inverse() has just been called on a non-orthogonal rotation with
\* a fractional translation and both signs -1, and the product with it is E
Wit_C1 ==
    /\ opcall.kind = "inverse"
    /\ opcall.args[1].rot_r = C3hex
    /\ opcall.args[1].tau = <<1, 0, 0>>
    /\ opcall.args[1].time_sign = -1 /\ opcall.args[1].afm_sign = -1
    /\ opcall.exc = ""
    /\ opcall.out.tau # <<0, 0, 0>>
    /\ SymmOp_isE(SymmOp_mul(opcall.args[1], opcall.out).val)

\* C7 (as claimed): a constructor call with a rot_r of determinant other than
\* +1 or -1 raises, so no SymmOp with such a rotation is returned
Cex_C7_NonUnimodularRaises ==
    (opcall.kind = "init" /\ Abs(Det3(opcall.args[1])) # 1) => opcall.exc # ""

\* C8 (as claimed): for every SymmOp that exists, rot_g^T * rot_r = identity
\* and rotm1_r * rot_r = identity
Cex_C8_RotgIsTransposeInverse ==
    \A a \in OpsInState :
        /\ MatMul(Transpose(a.rot_g), a.rot_r) = E3
        /\ MatMul(a.rotm1_r, a.rot_r) = E3

\* a.tau - b.tau is an integer vector (exact rationals)
TauDiffIsLattice(a, b) == \A c \in 1..3 : (a.tau[c] - b.tau[c]) % TauDen = 0

Gen(rot, tau, afm) == [rot |-> rot, tau |-> tau, afm |-> afm]
Zero3 == <<0, 0, 0>>

\* the other elements of the hexagonal point group 3m generated by C3hex, MirXY
C3hex2 == <<<<-1, 1, 0>>, <<-1, 0, 0>>, <<0, 0, 1>>>>
MirX == <<<<-1, 0, 0>>, <<-1, 1, 0>>, <<0, 0, 1>>>>
MirY == <<<<1, -1, 0>>, <<0, -1, 0>>, <<0, 0, 1>>>>

\* the trivial group
G_C1 == <<Gen(E3, Zero3, 1)>>
\* a twofold screw axis: the square of the second element is a lattice translation
G_screw == <<Gen(E3, Zero3, 1), Gen(C2z, <<0, 0, 1>>, 1)>>
\* 2/m with antiferromagnetic inversion and mirror, ferro- and antiferromagnetic
\* operations interleaved
G_2m_afm == <<Gen(E3, Zero3, 1), Gen(Inv3, Zero3, -1), Gen(C2z, Zero3, 1), Gen(Mz, Zero3, -1)>>
\* 3m in a hexagonal basis: not abelian
G_3m == <<Gen(E3, Zero3, 1), Gen(C3hex, Zero3, 1), Gen(C3hex2, Zero3, 1),
          Gen(MirXY, Zero3, 1), Gen(MirX, Zero3, 1), Gen(MirY, Zero3, 1)>>

Catalogue == {G_C1, G_screw, G_2m_afm, G_3m}

\* rotations an edit can put in place of a generator's
EditRots == {Shear, Det2, Sing}
\* translations an edit can put in place of a generator's
EditTaus == {Zero3, <<1, 0, 0>>, <<0, 0, TauDen>>}

SpgIds == {1, 233}
Inords == {"C", "F"}

symrel_of(g) == ToSeq([i \in 1..Len(g) |-> g[i].rot])
tnons_of(g) == ToSeq([i \in 1..Len(g) |-> g[i].tau])
symafm_of(g) == ToSeq([i \in 1..Len(g) |-> g[i].afm])

\* g without its element i
RemoveAt(g, i) == SubSeq(g, 1, i - 1) \o SubSeq(g, i + 1, Len(g))

(***************************************************************************)
(* Spec: a generator list is taken from the catalogue, possibly edited     *)
(* once, handed to SpaceGroup.__init__, and the OpSequence methods are     *)
(* called on the SpaceGroup built.                                         *)
(***************************************************************************)
OpIdle == regs = <<>> /\ opcall = NoCall /\ depth = 0

Init ==
    /\ phase = "input"
    /\ gens \in Catalogue
    /\ edits = 0
    /\ spg = None
    /\ ret = NoCall
    /\ lgcalls = <<>>
    /\ ptgq = <<>>
    /\ table = None /\ bptg = None
    /\ OpIdle

Untouched == UNCHANGED <<regs, opcall, depth, lgcalls, ptgq, table, bptg>>

\* the caller's list lacks, repeats, reorders or alters one generator
EditGens ==
    /\ phase = "input" /\ edits = 0
    /\ edits' = 1
    /\ \E i \in 1..Len(gens) :
          \/ gens' = RemoveAt(gens, i)
          \/ Len(gens) < MaxSym /\ gens' = Append(gens, gens[i])
          \/ i < Len(gens) /\ gens' = [gens EXCEPT ![i] = gens[i + 1], ![i + 1] = gens[i]]
          \/ \E t \in EditTaus : t # gens[i].tau /\ gens' = [gens EXCEPT ![i].tau = t]
          \/ gens' = [gens EXCEPT ![i].afm = -@]
          \/ \E r \in EditRots : gens' = [gens EXCEPT ![i].rot = r]
    /\ UNCHANGED <<phase, spg, ret>>
    /\ Untouched

\* spg = SpaceGroup(spgid, symrel, tnons, symafm, has_timerev, inord)
SpaceGroupNew(spgid, has_timerev, inord) ==
    /\ phase = "input"
    /\ \E r \in {SpaceGroup_init(spgid, symrel_of(gens), tnons_of(gens), symafm_of(gens),
                                 has_timerev, inord)} :
          /\ phase' = IF r.exc = "" THEN "built" ELSE "raised"
          /\ spg' = r.val
          /\ ret' = [kind |-> "SpaceGroup", args |-> <<spgid, has_timerev, inord>>,
                     exc |-> r.exc, out |-> None]
    /\ UNCHANGED <<gens, edits>>
    /\ Untouched

\* spg = SpaceGroup.from_structure(structure, has_timerev), the finder
\* returning the rotations and translations of gens
FromStructure(spgid, has_timerev) ==
    /\ phase = "input"
    /\ \E data \in {[number |-> spgid, rotations |-> symrel_of(gens),
                     translations |-> tnons_of(gens)]} :
          \E r \in {SpaceGroup_from_structure(data, has_timerev)} :
             /\ phase' = IF r.exc = "" THEN "built" ELSE "raised"
             /\ spg' = r.val
             /\ ret' = [kind |-> "from_structure", args |-> <<data, has_timerev>>,
                        exc |-> r.exc, out |-> None]
    /\ UNCHANGED <<gens, edits>>
    /\ Untouched

\* spg.is_group()
IsGroup ==
    /\ phase = "built"
    /\ \E r \in {OpSeq_is_group(spg.ops)} :
          ret' = [kind |-> "is_group", args |-> <<>>, exc |-> r.exc, out |-> r.val]
    /\ UNCHANGED <<phase, gens, edits, spg>>
    /\ Untouched

\* spg.asdict()
AsDict ==
    /\ phase = "built"
    /\ \E r \in {OpSeq_asdict(spg.ops)} :
          ret' = [kind |-> "asdict", args |-> <<>>, exc |-> r.exc, out |-> r.val]
    /\ UNCHANGED <<phase, gens, edits, spg>>
    /\ Untouched

\* spg.class_indices: the cached list if there is one, else it is computed
ClassIndices ==
    /\ phase = "built"
    /\ IF spg.class_indices.set
       THEN /\ ret' = [kind |-> "class_indices", args |-> <<>>, exc |-> "",
                       out |-> spg.class_indices.val]
            /\ spg' = spg
       ELSE \E r \in {OpSeq_compute_class_indices(spg.ops)} :
               /\ ret' = [kind |-> "class_indices", args |-> <<>>, exc |-> r.exc,
                          out |-> r.val]
               /\ spg' = IF r.cached
                         THEN [spg EXCEPT !.class_indices = [set |-> TRUE, val |-> r.val]]
                         ELSE spg
    /\ UNCHANGED <<phase, gens, edits>>
    /\ Untouched

\* spg.mult_table: the cached table if there is one, else it is computed
MultTable ==
    /\ phase = "built"
    /\ IF spg.mult_table.set
       THEN /\ ret' = [kind |-> "mult_table", args |-> <<>>, exc |-> "",
                       out |-> spg.mult_table.val]
            /\ spg' = spg
       ELSE \E r \in {OpSeq_compute_mult_table(spg.ops)} :
               /\ ret' = [kind |-> "mult_table", args |-> <<>>, exc |-> r.exc,
                          out |-> r.val]
               /\ spg' = IF r.cached
                         THEN [spg EXCEPT !.mult_table = [set |-> TRUE, val |-> r.val]]
                         ELSE spg
    /\ UNCHANGED <<phase, gens, edits>>
    /\ Untouched

\* spg.num_spatial_symmetries
NumSpatial ==
    /\ phase = "built"
    /\ ret' = [kind |-> "num_spatial_symmetries", args |-> <<>>, exc |-> "",
               out |-> num_spatial_symmetries(spg)]
    /\ UNCHANGED <<phase, gens, edits, spg>>
    /\ Untouched

Next ==
    \/ EditGens
    \/ \E spgid \in SpgIds, has_timerev \in BOOLEAN, inord \in Inords :
          SpaceGroupNew(spgid, has_timerev, inord)
    \/ \E spgid \in SpgIds, has_timerev \in BOOLEAN : FromStructure(spgid, has_timerev)
    \/ IsGroup
    \/ AsDict
    \/ ClassIndices
    \/ MultTable
    \/ NumSpatial

Spec == Init /\ [][Next]_vars

(***************************************************************************)
(* Claims on SpaceGroup and OpSequence.                                    *)
(*                                                                         *)
(* A group is stated on elements [rot, tau, afm, ts] with exact arithmetic: *)
(* translations are numerators over TauDen and are compared modulo TauDen. *)
(***************************************************************************)
ElemEquiv(a, b) ==
    /\ a.rot = b.rot
    /\ a.afm = b.afm
    /\ a.ts = b.ts
    /\ \A c \in 1..3 : (a.tau[c] - b.tau[c]) % TauDen = 0

ElemProd(a, b) ==
    [rot |-> MatMul(a.rot, b.rot), tau |-> VecAdd(a.tau, MatVec(a.rot, b.tau)),
     afm |-> a.afm * b.afm, ts |-> a.ts * b.ts]

ElemIsE(a) == ElemEquiv(a, [rot |-> E3, tau |-> <<0, 0, 0>>, afm |-> 1, ts |-> 1])

ElemIn(es, a) == \E k \in 1..Len(es) : ElemEquiv(es[k], a)

\* es is duplicate-free, has one identity, holds every inverse and product
ElemsFormGroup(es) ==
    /\ \A i, j \in 1..Len(es) : i # j => ~ElemEquiv(es[i], es[j])
    /\ Cardinality({i \in 1..Len(es) : ElemIsE(es[i])}) = 1
    /\ \A i \in 1..Len(es) :
          \E j \in 1..Len(es) : ElemIsE(ElemProd(es[i], es[j])) /\ ElemIsE(ElemProd(es[j], es[i]))
    /\ \A i, j \in 1..Len(es) : ElemIn(es, ElemProd(es[i], es[j]))

\* the generators as the constructor reads them with the given inord
GenElems(g, inord) ==
    [i \in 1..Len(g) |->
        [rot |-> IF inord = "F" THEN Transpose(g[i].rot) ELSE g[i].rot,
         tau |-> g[i].tau, afm |-> g[i].afm, ts |-> 1]]

\* the operations of an OpSequence
OpElems(ops) ==
    [i \in 1..Len(ops) |->
        [rot |-> ops[i].rot_r, tau |-> ops[i].tau, afm |-> ops[i].afm_sign,
         ts |-> ops[i].time_sign]]

\* the inord values under which the SpaceGroup built holds the generators
BuiltInords == {o \in Inords : spg.symrel = symrel_of(GenElems(gens, o))}

\* C2: when the generators handed to SpaceGroup are duplicate-free and form
\* a group (one identity, inverses, closed products, translations modulo a
\* lattice vector), is_group() on the SpaceGroup built returns True, with
\* has_timerev False as with has_timerev True.
Thm_C2_ValidGeneratorsGiveGroup ==
    (phase = "built" /\ ret.kind = "is_group"
        /\ \E o \in BuiltInords : ElemsFormGroup(GenElems(gens, o)))
    => (ret.exc = "" /\ ret.out = TRUE)

Wit_C2 ==
    /\ phase = "built" /\ ret.kind = "is_group"
    /\ spg.has_timerev /\ Len(gens) = 6 /\ Len(spg.ops) = 12
    /\ \E o \in BuiltInords : ElemsFormGroup(GenElems(gens, o))
    /\ ret.out = TRUE

\* every index 0..n-1 is in exactly one list of cls, exactly once
IsIndexPartition(cls, n) ==
    /\ \A c \in 1..Len(cls) : \A q \in 1..Len(cls[c]) : cls[c][q] \in 0..(n - 1)
    /\ \A idx \in 0..(n - 1) :
          Cardinality({t \in UNION {{<<c, q>> : q \in 1..Len(cls[c])} : c \in 1..Len(cls)} :
                          cls[t[1]][t[2]] = idx}) = 1
    /\ SumLen(cls, 1) = n

\* C3: for an OpSequence that is a group, class_indices returns lists of
\* indices that are pairwise disjoint, hold no index twice and whose lengths
\* sum to len(group): every index 0..n-1 is in exactly one class.
Thm_C3_ClassIndicesPartition ==
    (phase = "built" /\ ret.kind = "class_indices" /\ ElemsFormGroup(OpElems(spg.ops)))
    => (ret.exc = "" /\ IsIndexPartition(ret.out, Len(spg.ops)))

Wit_C3 ==
    /\ phase = "built" /\ ret.kind = "class_indices"
    /\ ElemsFormGroup(OpElems(spg.ops))
    /\ Len(spg.ops) = 6 /\ Len(ret.out) = 3
    /\ \E c \in 1..Len(ret.out) : Len(ret.out[c]) = 3

\* C4: a SpaceGroup built from n spatial operations holds one SymmOp per
\* pair (spatial operation i, time sign t), t in {+1} without time reversal
\* and in {+1,-1} with it; so len(group) = 2n and num_spatial_symmetries = n
\* with time reversal, and len(group) = n without.
Thm_C4_OpsAreSpatialTimesTimeSigns ==
    phase = "built" =>
        LET n == Len(gens)
            nt == Len(spg.time_signs)
        IN /\ spg.time_signs = (IF spg.has_timerev THEN <<1, -1>> ELSE <<1>>)
           /\ Len(spg.symrel) = n
           /\ Len(spg.ops) = nt * n
           /\ Len(spg.ops) = (IF spg.has_timerev THEN 2 * n ELSE n)
           /\ \A i \in 1..n : \A t \in 1..nt :
                 \E p \in 1..(nt * n) :
                    /\ spg.ops[p].rot_r = spg.symrel[i]
                    /\ spg.ops[p].tau = gens[i].tau
                    /\ spg.ops[p].afm_sign = gens[i].afm
                    /\ spg.ops[p].time_sign = spg.time_signs[t]
                    /\ p = (t - 1) * n + i
           /\ (ret.kind = "num_spatial_symmetries" => ret.out = n)

Wit_C4 ==
    /\ phase = "built" /\ spg.has_timerev /\ Len(gens) = 4
    /\ ret.kind = "num_spatial_symmetries" /\ ret.out = 4 /\ Len(spg.ops) = 8

\* C10: the SymmOp hash agrees with equality, and asdict() of a
\* duplicate-free OpSequence keeps two distinct operations of equal hash
\* under two different indices: the call returns a dict of len(self)
\* entries in which every operation is looked up to its own index.
Cex_C10_AsDictSeparatesHashEqualOps ==
    (phase = "built" /\ ret.kind = "asdict"
        /\ \A i, j \in 1..Len(spg.ops) : i # j => ~SymmOp_eq(spg.ops[i], spg.ops[j]))
    => /\ ret.exc = ""
       /\ Len(ret.out) = Len(spg.ops)
       /\ \A i \in 1..Len(spg.ops) : dict_getitem(ret.out, spg.ops[i]) = [exc |-> "", val |-> i - 1]

\* no two entries of ops are equal as SymmOps
DuplicateFree(ops) ==
    \A i, j \in 1..Len(ops) : i # j => ~SymmOp_eq(ops[i], ops[j])

\* the three conditions of is_group, evaluated with the operations' own
\* isE, inverse(), __mul__ and membership in the sequence
ThreeGroupConditions(ops) ==
    /\ Cardinality({i \in 1..Len(ops) : SymmOp_isE(ops[i])}) = 1
    /\ \A i \in 1..Len(ops) : OpSeq_contains(ops, SymmOp_inverse(ops[i]).val)
    /\ \A i, j \in 1..Len(ops) : OpSeq_contains(ops, SymmOp_mul(ops[i], ops[j]).val)

\* C11 (as claimed): on every duplicate-free OpSequence is_group() returns,
\* and it returns True exactly when there is one identity, every inverse is
\* in the sequence and every product of an ordered pair is in the sequence.
Cex_C11_IsGroupIffThreeConditions ==
    (phase = "built" /\ ret.kind = "is_group" /\ DuplicateFree(spg.ops))
    => /\ ret.exc = ""
       /\ ret.out = ThreeGroupConditions(spg.ops)

\* C12 (as claimed): on a sequence of unimodular operations that is not a
\* group (no identity, a missing inverse, a missing product or a repeated
\* operation) is_group() does not raise and returns False.
Cex_C12_IsGroupNeverRaises ==
    (phase = "built" /\ ret.kind = "is_group"
        /\ \A i \in 1..Len(spg.ops) : Unimodular(spg.ops[i])
        /\ ~ElemsFormGroup(OpElems(spg.ops)))
    => (ret.exc = "" /\ ret.out = FALSE)

\* C13 (as claimed): mult_table of an OpSequence of n operations returns an
\* n x n table; entry [i,j] is the index of op_i * op_j when the product is
\* in the sequence and None when it is not, and the access does not fail on
\* a set that is not closed.  None is written <<>>.
Cex_C13_MultTableNoneOutsideSet ==
    (phase = "built" /\ ret.kind = "mult_table" /\ DuplicateFree(spg.ops)
        /\ \A i \in 1..Len(spg.ops) : Unimodular(spg.ops[i]))
    => /\ ret.exc = ""
       /\ Len(ret.out) = Len(spg.ops)
       /\ \A i, j \in 1..Len(spg.ops) :
             LET op12 == SymmOp_mul(spg.ops[i], spg.ops[j]).val
             IN IF OpSeq_contains(spg.ops, op12)
                THEN ret.out[i][j] \in 0..(Len(spg.ops) - 1)
                     /\ SymmOp_eq(spg.ops[ret.out[i][j] + 1], op12)
                ELSE ret.out[i][j] = None

\* es[j] = x^-1 es[i] x for an element x of es, x^-1 being the element of es
\* whose product with x is the identity (exact arithmetic)
Conjugate(es, i, j) ==
    \E x, y \in 1..Len(es) :
        /\ ElemIsE(ElemProd(es[y], es[x]))
        /\ ElemEquiv(ElemProd(ElemProd(es[y], es[i]), es[x]), es[j])

\* the relation Conjugate on the indices of es: entry (i - 1) * n + j
ConjTable(es) ==
    ToSeq([t \in 1..(Len(es) * Len(es)) |->
              Conjugate(es, ((t - 1) \div Len(es)) + 1, ((t - 1) % Len(es)) + 1)])

\* the indices (0-based) of the list c of cls
ListSet(cls, c) == {cls[c][q] : q \in 1..Len(cls[c])}

\* cls is the partition of 0..n-1 into the classes of the relation rel
IsClassPartition(cls, n, rel) ==
    /\ \A i, j \in 0..(n - 1) :
          (\E c \in 1..Len(cls) : i \in ListSet(cls, c) /\ j \in ListSet(cls, c))
          <=> rel[i * n + j + 1]
    /\ \A c \in 1..Len(cls) :
          /\ cls[c] # <<>>
          /\ ListSet(cls, c) = {j \in 0..(n - 1) : rel[Min(ListSet(cls, c)) * n + j + 1]}

\* C17: for an OpSequence that is a group, two indices i and j are in the
\* same list of class_indices exactly when inverse(x) * op_i * x == op_j for
\* some x of the group; every list is not empty and is the whole conjugacy
\* class of its representative (the first index that was not yet classified,
\* its least index).
Thm_C17_ClassesAreConjugacyClasses ==
    (phase = "built" /\ ret.kind = "class_indices" /\ ElemsFormGroup(OpElems(spg.ops)))
    => /\ ret.exc = ""
       /\ \A rel \in {ConjTable(es) : es \in {ToSeq(OpElems(spg.ops))}} :
             IsClassPartition(ret.out, Len(spg.ops), rel)

\* C17 witness: the classes of the non-abelian group 3m with time reversal
\* have been computed: twelve operations in six classes, the three mirrors
\* conjugate to one another
Wit_C17 ==
    /\ phase = "built" /\ ret.kind = "class_indices" /\ ret.exc = ""
    /\ ElemsFormGroup(OpElems(spg.ops))
    /\ Len(spg.ops) = 12 /\ Len(ret.out) = 6
    /\ \E c \in 1..Len(ret.out) : ListSet(ret.out, c) = {3, 4, 5}
    /\ Conjugate(OpElems(spg.ops), 4, 6) /\ ~Conjugate(OpElems(spg.ops), 2, 4)

\* some conjugate inverse(x) * g * x of two operations of ops is not in ops
ConjugationNotClosed(ops) ==
    \E i, x \in 1..Len(ops) :
        \/ opconj(ops[i], ops[x]).exc # ""
        \/ ~OpSeq_contains(ops, opconj(ops[i], ops[x]).val)

\* C18 (as claimed): when class_indices is accessed on a duplicate-free set
\* of unimodular operations that is not closed under conjugation, the
\* access raises (the size-sum assertion fails) and returns no partition.
Cex_C18_ClassIndicesRaisesWhenNotClosed ==
    (phase = "built" /\ ret.kind = "class_indices" /\ DuplicateFree(spg.ops)
        /\ (\A i \in 1..Len(spg.ops) : Unimodular(spg.ops[i]))
        /\ ConjugationNotClosed(spg.ops))
    => ret.exc = "AssertionError"

\* the access just made left the value it returned in the cache
CachedAfterAccess(kind, cache, r) ==
    r.kind = kind => (cache.set /\ r.exc = "" /\ r.out = cache.val)

\* C23 (as claimed): mult_table and class_indices are computed at most
\* once on one instance: an access leaves its value cached, so that every
\* later access returns it without computing it again, and no operation
\* changes a value that is cached.
Cex_C23_CachesComputedOnce ==
    [][(phase = "built" /\ phase' = "built") =>
          /\ spg.mult_table.set => spg'.mult_table = spg.mult_table
          /\ spg.class_indices.set => spg'.class_indices = spg.class_indices
          /\ CachedAfterAccess("mult_table", spg'.mult_table, ret')
          /\ CachedAfterAccess("class_indices", spg'.class_indices, ret')]_vars

\* the products of the spatial operations (time_sign +1) are operations of
\* the sequence
SpatialClosed(ops) ==
    \A es \in {ToSeq(OpElems(SelectSeq(ops, LAMBDA o : o.time_sign = 1)))} :
        \A i, j \in 1..Len(es) : ElemIn(es, ElemProd(es[i], es[j]))

\* C24 (as claimed): SpaceGroup.__init__ validates its data: a SpaceGroup
\* is returned only for rotations of determinant +1 or -1 and for spatial
\* operations closed under product.
Cex_C24_ConstructorValidatesGenerators ==
    (phase = "built" /\ ret.kind = "SpaceGroup")
    => /\ \A i \in 1..Len(spg.symrel) : Det3(spg.symrel[i]) \in {1, -1}
       /\ SpatialClosed(spg.ops)

\* C28 (as claimed): from_structure, given a dataset with n >= 1 rotations
\* and n translations, returns a SpaceGroup with n spatial operations,
\* operation i holding rotations[i] and translations[i], all with
\* afm_sign +1.
Cex_C28_FromStructureKeepsOperations ==
    (ret.kind = "from_structure" /\ ret.args[1].number \in 0..232
        /\ \A i \in 1..Len(ret.args[1].rotations) : Abs(Det3(ret.args[1].rotations[i])) = 1)
    => /\ ret.exc = "" /\ phase = "built"
       /\ num_spatial_symmetries(spg) = Len(ret.args[1].rotations)
       /\ \A i \in 1..Len(ret.args[1].rotations) :
             /\ spg.ops[i].rot_r = ret.args[1].rotations[i]
             /\ spg.ops[i].tau = ret.args[1].translations[i]
             /\ spg.ops[i].afm_sign = 1

(***************************************************************************)
(* Point-group symbol tables.  A Python value handed to the converters is  *)
(* a string (text s with l leading and r trailing blanks), an int or None. *)
(***************************************************************************)
PyStr(s) == [t |-> "str", s |-> s, l |-> 0, r |-> 0]
Padded(s, l, r) == [t |-> "str", s |-> s, l |-> l, r |-> r]
PyInt(i) == [t |-> "int", i |-> i]

\* six.string_types test
is_string(obj) == obj # None /\ obj.t = "str"

\* str.strip()
strip(x) == [x EXCEPT !.l = 0, !.r = 0]

\* _PTG_IDS: Schoenflies, Hermann-Mauguin, spgid
PTG_IDS ==
    << <<"C1", "1", 1>>, <<"Ci", "-1", 2>>, <<"C2", "2", 3>>, <<"Cs", "m", 6>>,
       <<"C2h", "2/m", 10>>, <<"D2", "222", 16>>, <<"C2v", "mm2", 25>>,
       <<"D2h", "mmm", 47>>, <<"C4", "4", 75>>, <<"S4", "-4", 81>>,
       <<"C4h", "4/m", 83>>, <<"D4", "422", 89>>, <<"C4v", "4mm", 99>>,
       <<"D2d", "-42m", 111>>, <<"D4h", "4/mmm", 123>>, <<"C3", "3", 143>>,
       <<"C3i", "-3", 147>>, <<"D3", "32", 149>>, <<"C3v", "3m", 156>>,
       <<"D3d", "-3m", 162>>, <<"C6", "6", 168>>, <<"C3h", "-6", 174>>,
       <<"C6h", "6/m", 175>>, <<"D6", "622", 177>>, <<"C6v", "6mm", 183>>,
       <<"D3h", "-6m2", 189>>, <<"D6h", "6/mmm", 191>>, <<"T", "23", 195>>,
       <<"Th", "m-3", 200>>, <<"O", "432", 207>>, <<"Td", "-43m", 215>>,
       <<"Oh", "m-3m", 221>> >>

\* column c of row i of _PTG_IDS as a Python value
PtgCell(i, c) == IF c = 3 THEN PyInt(PTG_IDS[i][3]) ELSE PyStr(PTG_IDS[i][c])

\* {t[kc]: t[vc] for t in _PTG_IDS}.get(key, None): a later row replaces
\* an earlier one with the same key
PtgGet(kc, vc, key) ==
    LET m == {i \in 1..Len(PTG_IDS) : PtgCell(i, kc) = key}
    IN IF m = {} THEN None
       ELSE PtgCell(CHOOSE i \in m : \A j \in m : j <= i, vc)

\* sch_symbols = _SCH2HERM.keys()
sch_symbols == {PtgCell(i, 1) : i \in 1..Len(PTG_IDS)}

sch2herm(sch_symbol) == PtgGet(1, 2, sch_symbol)
sch2spgid(sch_symbol) == PtgGet(1, 3, sch_symbol)
herm2sch(herm_symbol) == PtgGet(2, 1, herm_symbol)
spgid2sch(spgid) == PtgGet(3, 1, spgid)

\* faulty variant: a string that is not a Schoenflies symbol is not tried as a
\* Hermann-Mauguin symbol
any2sch_noherm(obj) ==
    IF is_string(obj)
    THEN (IF obj \in sch_symbols THEN obj ELSE None)
    ELSE spgid2sch(obj)

\* any2sch
any2sch(obj) ==
    IF is_string(obj)
    THEN (IF obj \in sch_symbols THEN obj ELSE herm2sch(obj))
    ELSE spgid2sch(obj)

PtgFns == {"sch2herm", "sch2spgid", "herm2sch", "spgid2sch", "any2sch"}

PtgApply(fn, obj) ==
    CASE fn = "sch2herm" -> sch2herm(obj)
      [] fn = "sch2spgid" -> sch2spgid(obj)
      [] fn = "herm2sch" -> herm2sch(obj)
      [] fn = "spgid2sch" -> spgid2sch(obj)
      [] fn = "any2sch" -> any2sch(obj)

\* the values callers hand to the converters: every cell of the table, and
\* values that are in no column
PtgInputs ==
    {PtgCell(i, c) : i \in 1..Len(PTG_IDS), c \in 1..3}
    \cup {None, PyStr("xx"), PyStr("c1"), PyInt(0), PyInt(4), Padded("3m", 0, 3), Padded("C1", 1, 0)}

(***************************************************************************)
(* SpecPtg: converter calls; a call takes a caller's value, or the value   *)
(* the previous call returned.                                             *)
(***************************************************************************)
InitPtg == ptgq = <<>> /\ OpIdle /\ OtherIdle

PtgCall(fn, obj) ==
    /\ ptgq = <<>>
    /\ ptgq' = <<[fn |-> fn, arg |-> obj, out |-> PtgApply(fn, obj)]>>
    /\ UNCHANGED <<regs, opcall, depth, phase, gens, edits, spg, ret, lgcalls, table, bptg>>

PtgChain(fn) ==
    /\ Len(ptgq) \in 1..(MaxChain - 1)
    /\ ptgq' = Append(ptgq, [fn |-> fn, arg |-> ptgq[Len(ptgq)].out,
                             out |-> PtgApply(fn, ptgq[Len(ptgq)].out)])
    /\ UNCHANGED <<regs, opcall, depth, phase, gens, edits, spg, ret, lgcalls, table, bptg>>

NextPtg ==
    \/ \E fn \in PtgFns, obj \in PtgInputs : PtgCall(fn, obj)
    \/ \E fn \in PtgFns : PtgChain(fn)

SpecPtg == InitPtg /\ [][NextPtg]_vars

\* the chain q is f2(f1(x)) with x in column c of the table
RoundTrip(q, f1, c, f2) ==
    /\ Len(q) >= 2
    /\ q[1].fn = f1 /\ q[2].fn = f2
    /\ \E i \in 1..Len(PTG_IDS) : q[1].arg = PtgCell(i, c)

\* C5: for each of the 32 Schoenflies symbols s, any2sch(sch2herm(s)) = s
\* and any2sch(sch2spgid(s)) = s; for each tabulated Hermann-Mauguin symbol
\* h, sch2herm(herm2sch(h)) = h.  The columns are pairwise one-to-one and
\* no Hermann-Mauguin symbol is a Schoenflies symbol.
Thm_C5_SymbolRoundTrips ==
    /\ Len(PTG_IDS) = 32
    /\ (RoundTrip(ptgq, "sch2herm", 1, "any2sch") \/ RoundTrip(ptgq, "sch2spgid", 1, "any2sch")
        \/ RoundTrip(ptgq, "herm2sch", 2, "sch2herm"))
       => (ptgq[1].out # None /\ ptgq[2].out = ptgq[1].arg)
    /\ (Len(ptgq) >= 1 /\ ptgq[1].fn = "any2sch"
        /\ \E i \in 1..Len(PTG_IDS) : ptgq[1].arg = PtgCell(i, 2))
       => ptgq[1].arg \notin sch_symbols

Wit_C5 ==
    /\ RoundTrip(ptgq, "sch2herm", 1, "any2sch")
    /\ ptgq[1].arg = PyStr("C3v") /\ ptgq[1].out = PyStr("3m") /\ ptgq[2].out = PyStr("C3v")

(***************************************************************************)
(* Little group of a k-point.  A k-point is a vector of numerators over    *)
(* KDen.                                                                   *)
(***************************************************************************)
\* SymmOp.rotate_k(frac_coords, wrap_tows=False)
rotate_k(self, frac_coords) == VecScale(self.time_sign, MatVec(self.rot_g, frac_coords))

\* abipy.core.kpoints.issamek(k1, k2): k1 - k2 is integral within the tolerance
issamek(k1, k2) == is_integer(VecSub(k1, k2), KDen)

\* SymmOp.preserve_k(frac_coords, ret_g0=True): (issamek(sk, k), round(sk - k))
preserve_k(self, frac_coords) ==
    LET sk == rotate_k(self, frac_coords)
    IN [is_same |-> issamek(sk, frac_coords),
        g0 |-> <<Around(sk[1] - frac_coords[1], KDen),
                 Around(sk[2] - frac_coords[2], KDen),
                 Around(sk[3] - frac_coords[3], KDen)>>]

\* SpaceGroup.symmops(time_sign, afm_sign); an argument left out (None) is
\* written 0, which "if time_sign:" treats as None
symmops(self, time_sign, afm_sign) ==
    LET useT == time_sign # 0
        useA == afm_sign # 0
    IN IF Len(self.ops) > 0 /\ useT /\ (\A t \in 1..Len(self.time_signs) : self.time_signs[t] # time_sign)
            THEN [exc |-> "AssertionError", val |-> <<>>]
       ELSE IF Len(self.ops) > 0 /\ useA /\ afm_sign \notin {-1, 1}
            THEN [exc |-> "AssertionError", val |-> <<>>]
       ELSE [exc |-> "",
             val |-> SelectSeq(self.ops, LAMBDA sym : /\ (useT => sym.time_sign = time_sign)
                                                      /\ (useA => sym.afm_sign = afm_sign))]

\* SpaceGroup.fm_symmops
fm_symmops(self) == symmops(self, 0, 1)

\* faulty variant: the blanks of the C string are kept
LatticePointGroup_init_nostrip(rotations, herm_symbol) ==
    IF herm2sch(herm_symbol) = None THEN [exc |-> "ValueError", val |-> None]
    ELSE [exc |-> "",
          val |-> [ops |-> ToSeq([i \in 1..Len(rotations) |-> LatticeRotation_init(rotations[i])]),
                   herm_symbol |-> herm_symbol]]

\* LatticePointGroup.__init__(rotations); herm_symbol is the answer of the
\* external get_point_group(rotations)
LatticePointGroup_init(rotations, herm_symbol) ==
    LET stripped == strip(herm_symbol)
        sch_symbol == herm2sch(stripped)
    IN IF sch_symbol = None THEN [exc |-> "ValueError", val |-> None]
       ELSE [exc |-> "",
             val |-> [ops |-> ToSeq([i \in 1..Len(rotations) |-> LatticeRotation_init(rotations[i])]),
                      herm_symbol |-> stripped]]

\* LatticePointGroup.sch_symbol
LatticePointGroup_sch_symbol(self) == herm2sch(self.herm_symbol)

\* LatticePointGroup.spgid
LatticePointGroup_spgid(self) == sch2spgid(LatticePointGroup_sch_symbol(self))

\* LittleGroup.__init__(kpoint, symmops, g0vecs)
LittleGroup_init(kpoint, k_symmops, g0vecs, herm_symbol) ==
    LET notrev == SelectSeq(k_symmops, LAMBDA o : o.time_sign # -1)
        krots == ToSeq([q \in 1..Len(notrev) |-> notrev[q].rot_g])
        kgroup == LatticePointGroup_init(krots, herm_symbol)
    IN IF Len(k_symmops) # Len(g0vecs) THEN [exc |-> "AssertionError", val |-> None]
       ELSE IF kgroup.exc # "" THEN [exc |-> kgroup.exc, val |-> None]
       ELSE [exc |-> "",
             val |-> [kpoint |-> kpoint, ops |-> k_symmops, g0vecs |-> g0vecs,
                      kgroup |-> kgroup.val]]

\* the operations and offsets find_little_group hands to LittleGroup: isym
\* counts within fm = self.fm_symmops, self[isym] is taken from all the
\* operations
LittleGroupArgs(self, fm, frac_coords) ==
    LET to_spgrp == SelectSeq(ToSeq([q \in 1..Len(fm) |-> q - 1]),
                              LAMBDA isym : preserve_k(fm[isym + 1], frac_coords).is_same)
    IN [k_symmops |-> ToSeq([q \in 1..Len(to_spgrp) |-> self.ops[to_spgrp[q] + 1]]),
        g0vecs |-> ToSeq([q \in 1..Len(to_spgrp) |->
                             preserve_k(fm[to_spgrp[q] + 1], frac_coords).g0])]

\* faulty variant: the operations kept replace the operations of the SpaceGroup
find_little_group_keepsops(self, kpoint, herm_symbol) ==
    CHOOSE out \in
        {CHOOSE res \in
             {[exc |-> lg.exc, val |-> lg.val, self |-> [self EXCEPT !.ops = a.k_symmops]] :
                 lg \in {LittleGroup_init(kpoint, a.k_symmops, a.g0vecs, herm_symbol)}} : TRUE :
            a \in {LittleGroupArgs(self, fm_symmops(self).val, kpoint)}} : TRUE

\* SpaceGroup.find_little_group(kpoint); self is the SpaceGroup as the call
\* leaves it
find_little_group(self, kpoint, herm_symbol) ==
    CHOOSE out \in
        {IF fm.exc # "" THEN [exc |-> fm.exc, val |-> None, self |-> self]
         ELSE CHOOSE res \in
                 {[exc |-> lg.exc, val |-> lg.val, self |-> self] :
                     lg \in {LittleGroup_init(kpoint, a.k_symmops, a.g0vecs, herm_symbol) :
                               a \in {LittleGroupArgs(self, fm.val, kpoint)}}} : TRUE :
            fm \in {fm_symmops(self)}} : TRUE

\* the k-points asked for: Gamma, a zone-border point and a generic point
KPoints == {<<0, 0, 0>>, <<KDen \div 2, 0, 0>>, <<1, 0, 0>>}

\* what the external point-group finder answers: a tabulated symbol in a
\* blank-padded C string, or no match
FinderAnswers == {Padded("3m", 0, 3), Padded("", 0, 5)}

(***************************************************************************)
(* SpecLg: a SpaceGroup is built as in Spec and find_little_group is       *)
(* called on it; lgcalls is the history of the calls.                      *)
(***************************************************************************)
FindLittleGroup(kpoint, herm_symbol) ==
    /\ phase = "built"
    /\ Len(lgcalls) < MaxCalls
    /\ \E r \in {find_little_group(spg, kpoint, herm_symbol)} :
          /\ lgcalls' = Append(lgcalls, [kpoint |-> kpoint, answer |-> herm_symbol,
                                         exc |-> r.exc, out |-> r.val])
          /\ spg' = r.self
    /\ UNCHANGED <<phase, gens, edits, ret, regs, opcall, depth, ptgq, table, bptg>>

NextLg ==
    \/ EditGens
    \/ \E spgid \in SpgIds, has_timerev \in BOOLEAN, inord \in Inords :
          SpaceGroupNew(spgid, has_timerev, inord)
    \/ \E kpoint \in KPoints, herm_symbol \in FinderAnswers :
          FindLittleGroup(kpoint, herm_symbol)

SpecLg == Init /\ [][NextLg]_vars

\* two calls of the history with the same k-point agree
SameLittleGroup(h) ==
    \A i, j \in 1..Len(h) :
        h[i].kpoint = h[j].kpoint =>
            /\ (h[i].answer = h[j].answer => h[i] = h[j])
            /\ (h[i].exc = "" /\ h[j].exc = "") =>
                  (h[i].out.ops = h[j].out.ops /\ h[i].out.g0vecs = h[j].out.g0vecs)

Max(S) == CHOOSE p \in S : \A q \in S : q <= p

RECURSIVE DotEntry(_, _, _, _, _)
\* sum over the first k terms of A[i][.] * B[.][j]
DotEntry(A, B, i, j, k) ==
    IF k = 0 THEN 0 ELSE A[i][k] * B[k][j] + DotEntry(A, B, i, j, k - 1)

\* np.dot(A, B) for two square matrices of the same dimension
DotD(A, B) ==
    ToSeq([i \in 1..Len(A) |-> ToSeq([j \in 1..Len(A) |-> DotEntry(A, B, i, j, Len(A))])])

\* (A - B).max(): the greatest entry, with its sign
ResidualMax(A, B) ==
    Max({A[i][j] - B[i][j] : i \in 1..Len(A), j \in 1..Len(A)})

RECURSIVE TraceD(_, _)
\* m.trace() for a square matrix: the sum of the first k diagonal entries
TraceD(m, k) == IF k = 0 THEN 0 ELSE m[k][k] + TraceD(m, k - 1)

RECURSIVE VDot(_, _, _)
\* np.vdot(trac1, trac2) for real traces, from position p on
VDot(t1, t2, p) == IF p > Len(t1) THEN 0 ELSE t1[p] * t2[p] + VDot(t1, t2, p + 1)

\* the evaluation of character[icls] = t0 and of isok for the class
\* (start, stop) ends in IndexError: self.traces[start] is out of range, or
\* the generator of all() runs past the end of traces
CharacterIndexError(traces, start, stop) ==
    \/ start >= Len(traces)
    \/ /\ stop > Len(traces)
       /\ \A i \in start..(Len(traces) - 1) : traces[i + 1] = traces[start + 1]

\* Irrep.__init__(name, dim, mats, class_range)
Irrep_init(name, dim, mats, class_range) ==
    LET traces == ToSeq([g \in 1..Len(mats) |-> TraceD(mats[g], dim)])
    IN IF \E c \in 1..Len(class_range) :
             CharacterIndexError(traces, class_range[c][1], class_range[c][2])
       THEN [exc |-> "IndexError", val |-> None]
       ELSE [exc |-> "",
             val |-> [name |-> name, mats |-> mats, traces |-> traces,
                      class_range |-> class_range, nclass |-> Len(class_range),
                      character |-> ToSeq([c \in 1..Len(class_range) |->
                                               traces[class_range[c][1] + 1]])]]

\* BilbaoPointGroup.__init__(sch_symbol, rotations, class_names, class_range, irreps)
BilbaoPointGroup_init(sch_symbol, rotations, class_names, class_range, irreps) ==
    LET made == [r \in 1..Len(irreps) |->
                    IF Len(irreps[r].matrices) # Len(rotations)
                    THEN [exc |-> "AssertionError", val |-> None]
                    ELSE Irrep_init(irreps[r].name, irreps[r].dim, irreps[r].matrices,
                                    class_range)]
        bad == {r \in 1..Len(irreps) : made[r].exc # ""}
    IN IF Len(irreps) # Len(class_names) THEN [exc |-> "AssertionError", val |-> None]
       ELSE IF bad # {} THEN [exc |-> made[Min(bad)].exc, val |-> None]
       ELSE [exc |-> "",
             val |-> [sch_symbol |-> sch_symbol, rotations |-> rotations,
                      class_names |-> class_names, nclass |-> Len(class_names),
                      class_range |-> class_range,
                      class_len |-> ToSeq([c \in 1..Len(class_range) |->
                                              class_range[c][2] - class_range[c][1]]),
                      irreps |-> ToSeq([r \in 1..Len(irreps) |-> made[r].val])]]

\* BilbaoPointGroup.herm_symbol
BilbaoPointGroup_herm_symbol(self) == herm2sch(PyStr(self.sch_symbol))

\* 1 / 1e-5, the tolerance of the two tests of auto_test
InvTol == 100000

\* sorted(l) for a list l of distinct indices of 0..n-1
sorted(l, n) ==
    SelectSeq(ToSeq([v \in 1..n |-> v - 1]), LAMBDA v : \E q \in 1..Len(l) : l[q] = v)

\* list(range(start, stop))
range(start, stop) ==
    IF stop <= start THEN <<>> ELSE ToSeq([q \in 1..(stop - start) |-> start + q - 1])

\* max_err of the representation test: the greatest abs(err) over the pairs
\* (idx1, idx2) and the irreps, err the greatest entry of the residual
RepresentationMaxErr(self, mult_table) ==
    Max({0} \cup
        {Abs(ResidualMax(DotD(self.irreps[r].mats[idx1], self.irreps[r].mats[idx2]),
                         self.irreps[r].mats[mult_table[idx1][idx2] + 1])) :
            idx1 \in 1..Len(self.rotations), idx2 \in 1..Len(self.rotations),
            r \in 1..Len(self.irreps)})

\* abipy.tools.iuptri(items, with_inds=True): the index pairs (ii, jj) of the
\* upper triangle, diagonal included
iuptri_inds(n) == {p \in (1..n) \X (1..n) : p[1] <= p[2]}

\* max_err > 1e-5 in the test of the orthogonality of the traces; err is a
\* multiple of 1 / num_rots
TraceOrthogonalityFails(self) ==
    \E p \in iuptri_inds(Len(self.irreps)) :
        Abs(VDot(self.irreps[p[1]].traces, self.irreps[p[2]].traces, 1)
            - (IF p[1] = p[2] THEN Len(self.rotations) ELSE 0)) * InvTol
           > Len(self.rotations)

\* auto_test from "mult_table = rot_group.mult_table" on
AutoTestRepresentation(self, mt) ==
    IF mt.exc # "" THEN [exc |-> mt.exc, val |-> -1]
    ELSE IF RepresentationMaxErr(self, mt.val) * InvTol > 1 THEN [exc |-> "", val |-> 3]
    ELSE IF TraceOrthogonalityFails(self) THEN [exc |-> "", val |-> 4]
    ELSE [exc |-> "", val |-> 0]

\* auto_test from "calc_class_inds = ..." on; cls is rot_group.class_indices
AutoTestClasses(self, ops, cls) ==
    IF cls.exc # "" THEN [exc |-> cls.exc, val |-> -1]
    ELSE IF Len(cls.val) # Len(self.class_range) THEN [exc |-> "AssertionError", val |-> -1]
    ELSE IF \E c \in 1..Len(cls.val) :
               sorted(cls.val[c], Len(ops)) # range(self.class_range[c][1], self.class_range[c][2])
         THEN [exc |-> "", val |-> 2]
    ELSE CHOOSE out \in {AutoTestRepresentation(self, mt) :
                            mt \in {OpSeq_compute_mult_table(ops)}} : TRUE

\* auto_test once rot_group exists
AutoTestGroup(self, ops, isgrp) ==
    IF isgrp.exc # "" THEN [exc |-> isgrp.exc, val |-> -1]
    ELSE IF ~isgrp.val THEN [exc |-> "", val |-> 1]
    ELSE CHOOSE out \in {AutoTestClasses(self, ops, cls) :
                            cls \in {OpSeq_compute_class_indices(ops)}} : TRUE

\* BilbaoPointGroup.auto_test(); herm_symbol is the answer of the external
\* get_point_group(self.rotations)
auto_test(self, herm_symbol) ==
    CHOOSE out \in
        {IF rot_group.exc # "" THEN [exc |-> rot_group.exc, val |-> -1]
         ELSE CHOOSE res \in {AutoTestGroup(self, rot_group.val.ops, isgrp) :
                                 isgrp \in {OpSeq_is_group(rot_group.val.ops)}} : TRUE :
            rot_group \in {LatticePointGroup_init(self.rotations, herm_symbol)}} : TRUE

(***************************************************************************)
(* Entries of the irreps database.                                         *)
(***************************************************************************)
IrrepData(name, dim, matrices) == [name |-> name, dim |-> dim, matrices |-> matrices]

\* the upper-left 2x2 block of a rotation that leaves the third axis alone
Block2(rot) == <<<<rot[1][1], rot[1][2]>>, <<rot[2][1], rot[2][2]>>>>

\* C3v (3m) in the hexagonal basis: classes E, {C3, C3^2}, three mirrors;
\* irreps A1, A2 and the two-dimensional E
T_C3v ==
    [sch_symbol |-> "C3v",
     rotations |-> <<E3, C3hex, C3hex2, MirXY, MirX, MirY>>,
     class_names |-> <<"1+", "3+", "-2+">>,
     class_range |-> <<<<0, 1>>, <<1, 3>>, <<3, 6>>>>,
     irreps |-> <<IrrepData("A1", 1, <<<<<<1>>>>, <<<<1>>>>, <<<<1>>>>, <<<<1>>>>, <<<<1>>>>, <<<<1>>>>>>),
                  IrrepData("A2", 1, <<<<<<1>>>>, <<<<1>>>>, <<<<1>>>>, <<<<-1>>>>, <<<<-1>>>>, <<<<-1>>>>>>),
                  IrrepData("E", 2, <<Block2(E3), Block2(C3hex), Block2(C3hex2),
                                      Block2(MirXY), Block2(MirX), Block2(MirY)>>)>>]

\* C2 (2): irreps A and B
T_C2 ==
    [sch_symbol |-> "C2",
     rotations |-> <<E3, C2z>>,
     class_names |-> <<"1+", "2+">>,
     class_range |-> <<<<0, 1>>, <<1, 2>>>>,
     irreps |-> <<IrrepData("A", 1, <<<<<<1>>>>, <<<<1>>>>>>),
                  IrrepData("B", 1, <<<<<<1>>>>, <<<<-1>>>>>>)>>]

\* an inconsistent entry for C2: the matrices of its second irrep are 2x2
\* matrices of rank one with the traces of B; D(C2) * D(E) is not D(C2)
T_C2_rank1 ==
    [T_C2 EXCEPT !.irreps[2] =
        IrrepData("B", 2, <<<<<<1, 0>>, <<0, 0>>>>, <<<<-1, 1>>, <<0, 0>>>>>>)]

TableCatalogue == {T_C3v, T_C2, T_C2_rank1}

\* what an edit adds to an entry of a matrix
EntryDeltas == {-1, 1}

(***************************************************************************)
(* SpecBilbao: an entry of the database is taken, possibly edited once,    *)
(* handed to BilbaoPointGroup, and auto_test is called on the object.      *)
(***************************************************************************)
InitBilbao ==
    /\ phase = "input"
    /\ table \in TableCatalogue
    /\ edits = 0
    /\ bptg = None
    /\ ret = NoCall
    /\ gens = <<>> /\ spg = None /\ lgcalls = <<>> /\ ptgq = <<>>
    /\ OpIdle

BilbaoUntouched == UNCHANGED <<regs, opcall, depth, gens, spg, lgcalls, ptgq>>

\* the entry of the database differs from a consistent one in one place: an
\* entry of a matrix, the class boundaries, the order or the value of a
\* rotation, the number of rotations
EditTable ==
    /\ phase = "input" /\ edits = 0
    /\ edits' = 1
    /\ \/ \E r \in 1..Len(table.irreps), g \in 1..Len(table.rotations), d \in EntryDeltas :
             \E a, b \in 1..table.irreps[r].dim :
                table' = [table EXCEPT !.irreps[r].matrices[g][a][b] = @ + d]
       \/ \E c \in 1..(Len(table.class_range) - 1) :
             \/ table' = [table EXCEPT !.class_range =
                             SubSeq(@, 1, c - 1)
                             \o <<<<@[c][1], @[c + 1][2]>>>>
                             \o SubSeq(@, c + 2, Len(@))]
             \/ \E d \in EntryDeltas :
                   table' = [table EXCEPT !.class_range[c][2] = @ + d,
                                          !.class_range[c + 1][1] = @ + d]
       \/ \E g \in 1..(Len(table.rotations) - 1) :
             table' = [table EXCEPT !.rotations[g] = table.rotations[g + 1],
                                    !.rotations[g + 1] = table.rotations[g]]
       \/ \E g \in 1..Len(table.rotations), rot \in EditRots :
             table' = [table EXCEPT !.rotations[g] = rot]
       \/ \E g \in 1..Len(table.rotations) :
             table' = [table EXCEPT !.rotations = RemoveAt(@, g)]
    /\ UNCHANGED <<phase, bptg, ret>>
    /\ BilbaoUntouched

\* bptg = BilbaoPointGroup(**entry)
BilbaoNew ==
    /\ phase = "input"
    /\ \E r \in {BilbaoPointGroup_init(table.sch_symbol, table.rotations, table.class_names,
                                       table.class_range, table.irreps)} :
          /\ phase' = IF r.exc = "" THEN "built" ELSE "raised"
          /\ bptg' = r.val
          /\ ret' = [kind |-> "BilbaoPointGroup", args |-> <<>>, exc |-> r.exc, out |-> -1]
    /\ UNCHANGED <<table, edits>>
    /\ BilbaoUntouched

\* bptg.auto_test(), the external point-group finder answering herm_symbol
AutoTest(herm_symbol) ==
    /\ phase = "built"
    /\ \E r \in {auto_test(bptg, herm_symbol)} :
          ret' = [kind |-> "auto_test", args |-> <<herm_symbol>>, exc |-> r.exc, out |-> r.val]
    /\ UNCHANGED <<phase, table, edits, bptg>>
    /\ BilbaoUntouched

\* bptg.herm_symbol
HermSymbol ==
    /\ phase = "built"
    /\ ret' = [kind |-> "herm_symbol", args |-> <<>>, exc |-> "",
               out |-> BilbaoPointGroup_herm_symbol(bptg)]
    /\ UNCHANGED <<phase, table, edits, bptg>>
    /\ BilbaoUntouched

NextBilbao ==
    \/ EditTable
    \/ BilbaoNew
    \/ HermSymbol
    \/ \E herm_symbol \in FinderAnswers : AutoTest(herm_symbol)

SpecBilbao == InitBilbao /\ [][NextBilbao]_vars

\* the rotations as group elements without translation
RotElems(rotations) ==
    [i \in 1..Len(rotations) |-> [rot |-> rotations[i], tau |-> Zero3, afm |-> 1, ts |-> 1]]

\* D(g1) * D(g2) differs from D(g1 * g2) in some entry, for some irrep and
\* some pair of rotations
NotARepresentation(self) ==
    \E i, j, k \in 1..Len(self.rotations), r \in 1..Len(self.irreps) :
        /\ self.rotations[k] = MatMul(self.rotations[i], self.rotations[j])
        /\ DotD(self.irreps[r].mats[i], self.irreps[r].mats[j]) # self.irreps[r].mats[k]

\* C19 (as claimed): when auto_test() gets as far as the representation
\* test (it returns none of 1, 2), any entry of a residual
\* D(g1) * D(g2) - D(g1*g2) that is not zero within the tolerance, whatever
\* its sign, makes it return 3; so it returns 0 only for a representation.
Cex_C19_AutoTestDetectsNonRepresentation ==
    (phase = "built" /\ ret.kind = "auto_test" /\ ret.exc = "" /\ ret.out \notin {1, 2}
        /\ NotARepresentation(bptg))
    => ret.out = 3

\* C20 (as claimed): auto_test() on a table whose rotations form a group,
\* the point group being recognised by the finder, never raises and
\* returns one of the codes 0..4.
Cex_C20_AutoTestNeverRaises ==
    (phase = "built" /\ ret.kind = "auto_test"
        /\ herm2sch(strip(ret.args[1])) # None
        /\ ElemsFormGroup(RotElems(bptg.rotations)))
    => (ret.exc = "" /\ ret.out \in 0..4)

\* C21 (as claimed): in every Irrep constructed, the character of class
\* icls is the trace of every matrix with index in class_range[icls]:
\* matrices whose traces differ within a class are not accepted.
Cex_C21_CharacterIsTraceOfWholeClass ==
    phase = "built" =>
        \A r \in 1..Len(bptg.irreps) :
            \A icls \in 1..bptg.irreps[r].nclass :
                \A i \in bptg.irreps[r].class_range[icls][1]
                          ..(bptg.irreps[r].class_range[icls][2] - 1) :
                    bptg.irreps[r].character[icls] = bptg.irreps[r].traces[i + 1]

\* C27 (as claimed): for a BilbaoPointGroup of a tabulated Schoenflies
\* symbol, herm_symbol returns the Hermann-Mauguin symbol of the row of
\* _PTG_IDS of its sch_symbol, never None.
Cex_C27_HermSymbolOfBilbaoPointGroup ==
    (phase = "built" /\ ret.kind = "herm_symbol")
    => \A i \in 1..Len(PTG_IDS) :
          PTG_IDS[i][1] = bptg.sch_symbol => ret.out = PyStr(PTG_IDS[i][2])

\* the calls of the history that returned a LittleGroup
Returned == {c \in 1..Len(lgcalls) : lgcalls[c].exc = ""}

\* C14 (as claimed): each operation op_i of a LittleGroup returned by
\* find_little_group(k) maps k to itself modulo a reciprocal lattice vector,
\* with op_i.rotate_k(k) == k + g0vecs[i] and g0vecs[i] an integer vector
\* (k in numerators over KDen).
Cex_C14_LittleGroupOpsPreserveK ==
    \A c \in Returned :
        \A q \in 1..Len(lgcalls[c].out.ops) :
            /\ issamek(rotate_k(lgcalls[c].out.ops[q], lgcalls[c].kpoint), lgcalls[c].kpoint)
            /\ rotate_k(lgcalls[c].out.ops[q], lgcalls[c].kpoint)
                  = VecAdd(lgcalls[c].kpoint, VecScale(KDen, lgcalls[c].out.g0vecs[q]))

\* C15 (as claimed): no operation with afm_sign == -1 is among the
\* operations of a LittleGroup returned by find_little_group(k).
Cex_C15_LittleGroupExcludesAfm ==
    \A c \in Returned :
        \A q \in 1..Len(lgcalls[c].out.ops) : lgcalls[c].out.ops[q].afm_sign # -1

\* C16 (as claimed): for a SpaceGroup built with has_timerev True, every
\* operation of a LittleGroup returned by find_little_group(k) has
\* time_sign == +1.
Cex_C16_LittleGroupExcludesTimeReversed ==
    (phase = "built" /\ spg.has_timerev) =>
        \A c \in Returned :
            \A q \in 1..Len(lgcalls[c].out.ops) : lgcalls[c].out.ops[q].time_sign = 1

\* is_group() returns True on the operations ops
IsGroupTrue(ops) == \A r \in {OpSeq_is_group(ops)} : r.exc = "" /\ r.val = TRUE

\* C30 (as claimed): when the SpaceGroup is a group, the operations of
\* every LittleGroup returned by find_little_group(k) form a group
\* (is_group() is True on them), and for k = (0,0,0) they include every
\* ferromagnetic operation with time_sign +1.
Cex_C30_LittleGroupIsGroup ==
    (phase = "built" /\ Returned # {} /\ IsGroupTrue(spg.ops))
    => \A c \in Returned :
          /\ IsGroupTrue(lgcalls[c].out.ops)
          /\ lgcalls[c].kpoint = <<0, 0, 0>> =>
                \A i \in 1..Len(spg.ops) :
                   (spg.ops[i].afm_sign = 1 /\ spg.ops[i].time_sign = 1)
                      => OpSeq_contains(lgcalls[c].out.ops, spg.ops[i])

\* (a * b) * c == a * (b * c), ab being the product a * b
Associates(a, b, ab, c) ==
    \A bc \in {SymmOp_mul(b, c)} :
        /\ bc.exc = ""
        /\ \A l \in {SymmOp_mul(ab, c)}, r \in {SymmOp_mul(a, bc.val)} :
              l.exc = "" /\ r.exc = "" /\ SymmOp_eq(l.val, r.val)

\* reciprocal vectors (numerators over KDen) on and off the symmetry axes
ProductKPoints == KPoints \cup {<<1, 2, 3>>, <<0, -1, 2>>}

\* C25 (as claimed): for all SymmOps a and b that exist, the product a * b
\* acts on every k as b followed by a, without wrapping, and the product
\* is associative with every SymmOp c.
Cex_C25_ProductIsApplyBThenA ==
    (opcall.kind = "mul" /\ opcall.exc = "")
    => /\ \A k \in ProductKPoints :
             rotate_k(opcall.out, k) = rotate_k(opcall.args[1], rotate_k(opcall.args[2], k))
       /\ \A c \in OpsInState \cup InputOps :
             Associates(opcall.args[1], opcall.args[2], opcall.out, c)

(***************************************************************************)
(* SpecLpg: a LatticePointGroup is constructed, its properties are read    *)
(* and it is compared with a second one; opcall is the last call.          *)
(***************************************************************************)
\* the rotation lists handed to LatticePointGroup
RotLists == {<<E3>>, <<E3, C2z>>, <<C2z, E3>>, <<E3, E3>>, <<E3, Mz>>, symrel_of(G_3m)}

\* what the external point-group finder answers: each tabulated symbol,
\* bare or blank-padded, and symbols that are not tabulated
PtgAnswers ==
    {Padded(PTG_IDS[i][2], l, r) : i \in 1..Len(PTG_IDS), l \in {0, 1}, r \in {0, 3}}
    \cup {Padded(t, 0, r) : t \in {"", "3m1", "C3v", "3 m", "M"}, r \in {0, 3}}

InitLpg == InitOp

\* LatticePointGroup(rotations), the finder answering herm_symbol
LatticePointGroupNew(rotations, herm_symbol) ==
    /\ opcall.kind = "none"
    /\ \E r \in {LatticePointGroup_init(rotations, herm_symbol)} :
          opcall' = [kind |-> "LatticePointGroup", args |-> <<rotations, herm_symbol>>,
                     exc |-> r.exc, out |-> r.val]
    /\ UNCHANGED <<regs, depth, phase, gens, edits, spg, ret, lgcalls, ptgq, table, bptg>>

\* opcall.out == LatticePointGroup(rotations): the object just built is
\* compared with a second one built with the same answer of the finder
LatticePointGroupEq(rotations) ==
    /\ opcall.kind = "LatticePointGroup" /\ opcall.exc = ""
    /\ \E other \in {LatticePointGroup_init(rotations, opcall.out.herm_symbol).val} :
          opcall' = [kind |-> "eq", args |-> <<opcall.out, other>>, exc |-> "",
                     out |-> OpSeq_eq(opcall.out, other)]
    /\ UNCHANGED <<regs, depth, phase, gens, edits, spg, ret, lgcalls, ptgq, table, bptg>>

NextLpg ==
    \/ \E rotations \in RotLists, herm_symbol \in PtgAnswers :
          LatticePointGroupNew(rotations, herm_symbol)
    \/ \E rotations \in RotLists : LatticePointGroupEq(rotations)

SpecLpg == InitLpg /\ [][NextLpg]_vars

\* the rows of _PTG_IDS whose Hermann-Mauguin symbol is the text of x
\* without its leading and trailing blanks
TabulatedRows(x) == {i \in 1..Len(PTG_IDS) : PTG_IDS[i][2] = x.s}

\* C22: LatticePointGroup(rotations) raises exactly when the symbol the
\* finder returns, blanks stripped, is not one of the 32 tabulated
\* Hermann-Mauguin symbols; otherwise the object is built and its sch_symbol
\* and spgid are the entries of the row of that symbol.
Thm_C22_PointGroupFailsIffNotTabulated ==
    opcall.kind = "LatticePointGroup" =>
        /\ (opcall.exc # "") <=> (TabulatedRows(opcall.args[2]) = {})
        /\ opcall.exc # "" => opcall.out = None
        /\ \A i \in TabulatedRows(opcall.args[2]) :
              /\ LatticePointGroup_sch_symbol(opcall.out) = PyStr(PTG_IDS[i][1])
              /\ LatticePointGroup_spgid(opcall.out) = PyInt(PTG_IDS[i][3])
              /\ Len(opcall.out.ops) = Len(opcall.args[1])

Wit_C22 ==
    /\ opcall.kind = "LatticePointGroup"
    /\ opcall.args[1] = symrel_of(G_3m)
    /\ opcall.args[2] = Padded("C3v", 0, 3)
    /\ opcall.exc = "ValueError" /\ opcall.out = None

\* the number of entries of ops equal to op
CountOf(ops, op) == Cardinality({i \in 1..Len(ops) : Op_eq(ops[i], op)})

\* s1 and s2 hold the same operations, each with the same number of entries
SameOperations(s1, s2) ==
    /\ \A i \in 1..Len(s1) : CountOf(s2, s1[i]) = CountOf(s1, s1[i])
    /\ \A i \in 1..Len(s2) : CountOf(s1, s2[i]) = CountOf(s2, s2[i])

\* C26 (as claimed): s1 == s2 holds exactly when s1 and s2 hold the same
\* operations with the same number of entries, in whatever order; so
\* s2 == s1 gives the same answer, and a sequence with a repeated operation
\* is unequal to a duplicate-free sequence of the same length.
Cex_C26_SequenceEqualityIgnoresOrder ==
    opcall.kind = "eq" =>
        /\ opcall.out = SameOperations(opcall.args[1].ops, opcall.args[2].ops)
        /\ opcall.out = OpSeq_eq(opcall.args[2], opcall.args[1])

(***************************************************************************)
(* SpecRot: LatticeRotation objects are constructed, raised to a power and *)
(* asked for their order and root_inv; opcall is the last call.            *)
(***************************************************************************)
\* six-fold and four-fold rotations, the three-fold rotoinversion
C6hex == <<<<1, -1, 0>>, <<1, 0, 0>>, <<0, 0, 1>>>>
C4z == <<<<0, -1, 0>>, <<1, 0, 0>>, <<0, 0, 1>>>>
C3hexInv == <<<<0, 1, 0>>, <<-1, 1, 0>>, <<0, 0, -1>>>>

\* rotations of every order 1, 2, 3, 4, 6, with and without a power equal to
\* the inversion, and matrices that are no root of the identity
RotMats == {E3, Inv3, C2z, Mz, C3hex, C3hexInv, C4z, C6hex, Shear, Det2, Sing}

\* the exponents of the calls R ** intexp
PowExps == {-6, -3, -2, -1, 0, 1, 2, 3, 6}

InitRot == InitOp

\* R = LatticeRotation(mat)
RotNew(mat) ==
    /\ Len(regs) < MaxRegs
    /\ opcall' = [kind |-> "init", args |-> <<mat>>, exc |-> "", out |-> LatticeRotation_init(mat)]
    /\ regs' = Append(regs, LatticeRotation_init(mat))
    /\ UNCHANGED <<depth, phase, gens, edits, spg, ret, lgcalls, ptgq, table, bptg>>

\* regs[i] ** intexp
RotPow(i, intexp) ==
    /\ \E r \in {LatticeRotation_pow(regs[i], intexp)} :
          opcall' = [kind |-> "pow", args |-> <<regs[i], intexp>>, exc |-> r.exc, out |-> r.val]
    /\ UNCHANGED <<regs, depth, phase, gens, edits, spg, ret, lgcalls, ptgq, table, bptg>>

\* regs[i].order
RotOrder(i) ==
    /\ \E r \in {LatticeRotation_order(regs[i])} :
          opcall' = [kind |-> "order", args |-> <<regs[i]>>, exc |-> r.exc, out |-> r.val]
    /\ UNCHANGED <<regs, depth, phase, gens, edits, spg, ret, lgcalls, ptgq, table, bptg>>

\* regs[i].root_inv
RotRootInv(i) ==
    /\ \E r \in {LatticeRotation_root_inv(regs[i])} :
          opcall' = [kind |-> "root_inv", args |-> <<regs[i]>>, exc |-> r.exc, out |-> r.val]
    /\ UNCHANGED <<regs, depth, phase, gens, edits, spg, ret, lgcalls, ptgq, table, bptg>>

NextRot ==
    \/ \E mat \in RotMats : RotNew(mat)
    \/ \E i \in 1..Len(regs), intexp \in PowExps : RotPow(i, intexp)
    \/ \E i \in 1..Len(regs) : RotOrder(i)
    \/ \E i \in 1..Len(regs) : RotRootInv(i)

SpecRot == InitRot /\ [][NextRot]_vars

\* the exponents n in 1..6 with mat to the n equal to the identity
UnitPowers(mat) == {n \in 1..6 : MatPow(mat, n) = E3}

\* the exponents m below n with mat to the m equal to the inversion
InversionPowers(mat, n) == {m \in 1..(n - 1) : MatPow(mat, m) = Inv3}

====
